---- MODULE Spec2Model ----
(***************************************************************************)
(* A model of the salon booking backend: the appointment store and its     *)
(* status state machine (appointment.controller.ts), the availability      *)
(* engine of getSaloonAvailability and the salon handlers                  *)
(* (user.controller.ts), and mail delivery (oauth.service.ts).             *)
(*                                                                         *)
(* Time is counted in minutes.  A JavaScript Date is modelled by its       *)
(* instant (minutes since an epoch, UTC); its local calendar fields are    *)
(* read through the server's timezone offset tzOffset.                     *)
(***************************************************************************)
EXTENDS Integers, Sequences, FiniteSets, TLC

VARIABLES
    saloons,          \* table saloons: id -> [owner_id, opening_time, closing_time]
    saloon_services,  \* table saloon_services: id -> [saloon_id, duration]
    appointments,     \* table appointments: sequence of rows, id = index
    now,              \* the clock: the instant new Date() returns
    tzOffset,         \* the server's local time = UTC + tzOffset minutes
    req,              \* the request (or call) being served: its operation and inputs
    appointment,      \* the row updateAppointmentStatus read before it decided
    candidates,       \* the slot loop of getSaloonAvailability: what it generated and kept
    res,              \* the response sent (or the value returned)
    clients,          \* per client: the availability response it last received
    handlers,         \* per connection: the async handler suspended at an await
    writes            \* the writes the suspended handlers made when they resumed

vars == <<saloons, saloon_services, appointments, now, tzOffset, req, appointment,
          candidates, res, clients, handlers, writes>>

(***************************************************************************)
(* Bounds of the model.                                                    *)
(***************************************************************************)
MaxAppointments == 1

(***************************************************************************)
(* Values.                                                                 *)
(***************************************************************************)
PENDING == "pending"
CONFIRMED == "confirmed"
CANCELLED == "cancelled"
COMPLETED == "completed"

AppointmentStatus == {PENDING, CONFIRMED, CANCELLED, COMPLETED}

\* A request field that may be missing, null or a string (of a given length).
Undefined == [tag |-> "undefined", text |-> "", len |-> 0]
Null == [tag |-> "null", text |-> "", len |-> 0]
Str(text, len) == [tag |-> "string", text |-> text, len |-> len]

\* A nullable number (a column INT, or a parsed date).
Num(n) == [tag |-> "number", val |-> n]
NullNum == [tag |-> "null", val |-> 0]
InvalidDate == [tag |-> "invalid", val |-> 0]

MinutesPerDay == 24 * 60

\* The roles of user_roles.
ADMIN_ROLE == 1
OWNER_ROLE == 2
GUEST_ROLE == 3

\* req.user as the authenticate middleware decodes it from the token; NoToken is a
\* request without a valid bearer token.
NoToken == [userId |-> 0, roleId |-> 0]
Tokens ==
    { [userId |-> 1, roleId |-> ADMIN_ROLE],
      [userId |-> 2, roleId |-> OWNER_ROLE],
      [userId |-> 3, roleId |-> OWNER_ROLE],
      [userId |-> 4, roleId |-> GUEST_ROLE],
      [userId |-> 5, roleId |-> GUEST_ROLE] }

(***************************************************************************)
(* Errors (utils/errors.ts) and the responses built from them.             *)
(***************************************************************************)
\* The statusCode each error class passes to AppError.
StatusCode(kind) ==
    CASE kind = "NotFoundError" -> 404
      [] kind = "ValidationError" -> 400
      [] kind = "AuthenticationError" -> 401
      [] kind = "AuthorizationError" -> 403
      [] kind = "ConflictError" -> 409
      [] kind = "DatabaseError" -> 500
      [] OTHER -> 500

\* asyncHandler: a thrown AppError is sent with its own status code.
SendError(kind) == [ok |-> FALSE, kind |-> kind, code |-> StatusCode(kind)]

\* authenticate: no valid token, the handler never runs.
Unauthorized == [ok |-> FALSE, kind |-> "Unauthorized", code |-> 401]

SendSuccess(code) == [ok |-> TRUE, kind |-> "success", code |-> code]

\* handleError: an AppError is returned as it is; a MySQL duplicate entry error
\* becomes a ConflictError; anything else an AppError with status 500.
AppErrors ==
    {"NotFoundError", "ValidationError", "AuthenticationError", "AuthorizationError",
     "ConflictError", "DatabaseError"}

handleError(error) ==
    IF error \in AppErrors THEN error
    ELSE IF error = "ER_DUP_ENTRY" THEN "ConflictError"
    ELSE "AppError"

NoRequest == [op |-> "none"]
NoRow == [found |-> FALSE]
NoCandidates == [generated |-> <<>>, kept |-> <<>>, appointments |-> <<>>]
NoResponse == [ok |-> FALSE, kind |-> "none", code |-> 0]

\* The clients of the API that hold an availability response: the two guests.
Clients == {4, 5}
\* asked: the query; answer: the response; store: the appointments table at that time.
NothingSeen == [c \in Clients |-> [asked |-> NoRequest, answer |-> NoResponse, store |-> <<>>]]

\* The connections that are served at the same time; each runs one handler, which
\* is idle or suspended at one of its awaits.
Connections == {1, 2}
Idle == [pc |-> "idle"]
NoHandlers == [p \in Connections |-> Idle]

(***************************************************************************)
(* Validation schemas (validations/schemas/appointment.schema.ts).         *)
(***************************************************************************)
\* notes: Joi.string().allow(null, '').max(500).optional()
NotesValid(notes) ==
    \/ notes.tag = "undefined"
    \/ notes.tag = "null"
    \/ notes.tag = "string" /\ notes.len <= 500

\* Joi.number().integer().positive().required()
PositiveIntValid(n) == n > 0

\* appointment_date: Joi.date().iso().greater('now').required()
DateValid(d) == d.tag = "number" /\ d.val > now

createAppointmentSchema(saloon_id, service_id, appointment_date, notes) ==
    /\ PositiveIntValid(saloon_id)
    /\ PositiveIntValid(service_id)
    /\ DateValid(appointment_date)
    /\ NotesValid(notes)

updateAppointmentStatusSchema(status, notes) ==
    /\ status \in AppointmentStatus
    /\ NotesValid(notes)

(***************************************************************************)
(* The appointment state machine.                                          *)
(***************************************************************************)
isValidStatusTransitionGuestConfirms(currentStatus, newStatus, isOwner) ==
    IF currentStatus = PENDING
    THEN newStatus \in {CONFIRMED, CANCELLED}
    ELSE IF currentStatus = CONFIRMED
    THEN newStatus \in {COMPLETED, CANCELLED}
    ELSE FALSE

isValidStatusTransitionReopens(currentStatus, newStatus, isOwner) ==
    IF isOwner
    THEN IF currentStatus \in {PENDING, CANCELLED}
         THEN newStatus \in {CONFIRMED, CANCELLED}
         ELSE IF currentStatus = CONFIRMED
         THEN newStatus \in {COMPLETED, CANCELLED}
         ELSE FALSE
    ELSE IF currentStatus \in {PENDING, CONFIRMED}
         THEN newStatus = CANCELLED
         ELSE FALSE

isValidStatusTransitionCompletesPending(currentStatus, newStatus, isOwner) ==
    IF isOwner
    THEN IF currentStatus = PENDING
         THEN newStatus \in {CONFIRMED, CANCELLED, COMPLETED}
         ELSE IF currentStatus = CONFIRMED
         THEN newStatus \in {COMPLETED, CANCELLED}
         ELSE FALSE
    ELSE IF currentStatus \in {PENDING, CONFIRMED}
         THEN newStatus = CANCELLED
         ELSE FALSE

isValidStatusTransition(currentStatus, newStatus, isOwner) ==
    IF isOwner
    THEN IF currentStatus = PENDING
         THEN newStatus \in {CONFIRMED, CANCELLED}
         ELSE IF currentStatus = CONFIRMED
         THEN newStatus \in {COMPLETED, CANCELLED}
         ELSE FALSE
    ELSE IF currentStatus \in {PENDING, CONFIRMED}
         THEN newStatus = CANCELLED
         ELSE FALSE

\* SELECT a.*, s.owner_id FROM appointments a JOIN saloons s ... WHERE a.id = ?
SelectAppointment(id) ==
    IF id \in 1..Len(appointments) /\ appointments[id].saloon_id \in DOMAIN saloons
    THEN [found |-> TRUE,
          id |-> id,
          guest_id |-> appointments[id].guest_id,
          saloon_id |-> appointments[id].saloon_id,
          status |-> appointments[id].status,
          notes |-> appointments[id].notes,
          owner_id |-> saloons[appointments[id].saloon_id].owner_id]
    ELSE NoRow

canUpdateAnyOwner(user, row) ==
    \/ user.roleId = OWNER_ROLE
    \/ user.roleId = GUEST_ROLE /\ row.guest_id = user.userId

canUpdate(user, row) ==
    \/ user.roleId = OWNER_ROLE /\ row.owner_id = user.userId
    \/ user.roleId = GUEST_ROLE /\ row.guest_id = user.userId

\* The catch block of updateAppointmentStatus: these three kinds are thrown on,
\* anything else becomes a DatabaseError.
UpdateCatchNoValidation(kind) ==
    IF kind \in {"NotFoundError", "AuthorizationError"}
    THEN kind
    ELSE "DatabaseError"

UpdateCatch(kind) ==
    IF kind \in {"NotFoundError", "ValidationError", "AuthorizationError"}
    THEN kind
    ELSE "DatabaseError"

\* What the try block of updateAppointmentStatus throws, "none" when it reaches
\* the UPDATE.
UpdateThrows(user, row, status) ==
    IF ~row.found THEN "NotFoundError"
    ELSE IF ~canUpdate(user, row) THEN "AuthorizationError"
    ELSE IF ~isValidStatusTransition(row.status, status, user.roleId = OWNER_ROLE)
    THEN "ValidationError"
    ELSE "none"

UpdateEveryRow(id, status, notes) ==
    [i \in 1..Len(appointments) |->
        [appointments[i] EXCEPT !.status = status,
                                !.notes = IF notes.tag # "undefined" THEN notes ELSE @]]

UpdateRowNotesOrNull(id, status, notes) ==
    [appointments EXCEPT
        ![id].status = status,
        ![id].notes = IF notes.tag = "string" /\ notes.len > 0 THEN notes ELSE Null]

\* UPDATE appointments SET status = ? [, notes = ?] WHERE id = ?
UpdateRow(id, status, notes) ==
    [appointments EXCEPT
        ![id].status = status,
        ![id].notes = IF notes.tag # "undefined" THEN notes ELSE @]

UpdateAppointmentStatus(user, id, status, notes) ==
    /\ req' = [op |-> "updateAppointmentStatus", user |-> user, id |-> id,
               status |-> status, notes |-> notes]
    /\ UNCHANGED <<saloons, saloon_services, now, tzOffset, candidates>>
    /\ IF user = NoToken
       THEN /\ res' = Unauthorized
            /\ appointment' = NoRow
            /\ UNCHANGED appointments
       ELSE IF ~updateAppointmentStatusSchema(status, notes)
       THEN /\ res' = SendError("ValidationError")
            /\ appointment' = NoRow
            /\ UNCHANGED appointments
       ELSE LET row == SelectAppointment(id)
                thrown == UpdateThrows(user, row, status)
            IN  /\ appointment' = row
                /\ IF thrown # "none"
                   THEN /\ res' = SendError(UpdateCatch(thrown))
                        /\ UNCHANGED appointments
                   ELSE /\ appointments' = UpdateRow(id, status, notes)
                        /\ res' = SendSuccess(200)

(***************************************************************************)
(* Booking.                                                                *)
(***************************************************************************)
BookCatch(kind) ==
    IF kind = "NotFoundError" THEN kind ELSE "DatabaseError"

BookThrowsServiceOfAnySalon(saloon_id, service_id) ==
    IF saloon_id \notin DOMAIN saloons THEN "NotFoundError"
    ELSE IF service_id \notin DOMAIN saloon_services THEN "NotFoundError"
    ELSE "none"

\* The two lookups of bookAppointment: the salon, then the service of that salon.
BookThrows(saloon_id, service_id) ==
    IF saloon_id \notin DOMAIN saloons THEN "NotFoundError"
    ELSE IF ~(service_id \in DOMAIN saloon_services
              /\ saloon_services[service_id].saloon_id = saloon_id)
    THEN "NotFoundError"
    ELSE "none"

StatusFromBody(body_status) == body_status

\* The status bookAppointment inserts: AppointmentStatus.PENDING, whatever the body holds.
InsertedStatus(body_status) == PENDING

\* notes || null
NotesOrNull(notes) ==
    IF notes.tag = "string" /\ notes.len > 0 THEN notes ELSE Null

BookAnyRole(user) == TRUE

\* Guests can book appointments (role_id = 3).
BookRoleAllowed(user) == user.roleId = GUEST_ROLE

\* insertError is what the INSERT rejects with ("none" when the row is stored).
BookAppointment(user, saloon_id, service_id, appointment_date, notes, body_status, insertError) ==
    /\ req' = [op |-> "bookAppointment", user |-> user, saloon_id |-> saloon_id,
               service_id |-> service_id, appointment_date |-> appointment_date,
               notes |-> notes, status |-> body_status, insertError |-> insertError]
    /\ appointment' = NoRow
    /\ UNCHANGED <<saloons, saloon_services, now, tzOffset, candidates>>
    /\ IF user = NoToken
       THEN /\ res' = Unauthorized
            /\ UNCHANGED appointments
       ELSE IF ~BookRoleAllowed(user)
       THEN /\ res' = SendError("AuthorizationError")
            /\ UNCHANGED appointments
       ELSE IF ~createAppointmentSchema(saloon_id, service_id, appointment_date, notes)
       THEN /\ res' = SendError("ValidationError")
            /\ UNCHANGED appointments
       ELSE LET checked == BookThrows(saloon_id, service_id)
                thrown == IF checked # "none" THEN checked ELSE insertError
            IN  IF thrown # "none"
                THEN /\ res' = SendError(handleError(BookCatch(thrown)))
                     /\ UNCHANGED appointments
                ELSE /\ appointments' = Append(appointments,
                            [guest_id |-> user.userId,
                             saloon_id |-> saloon_id,
                             service_id |-> service_id,
                             appointment_date |-> appointment_date.val,
                             status |-> InsertedStatus(body_status),
                             notes |-> NotesOrNull(notes)])
                     /\ res' = SendSuccess(201)

(***************************************************************************)
(* Listing (getUserAppointments).                                          *)
(***************************************************************************)
\* ORDER BY a.appointment_date DESC
RECURSIVE OrderByDateDesc(_)
OrderByDateDesc(rows) ==
    IF rows = <<>> THEN <<>>
    ELSE LET first == CHOOSE i \in 1..Len(rows) :
                        \A j \in 1..Len(rows) :
                            \/ rows[i].appointment_date > rows[j].appointment_date
                            \/ rows[i].appointment_date = rows[j].appointment_date /\ i <= j
         IN  <<rows[first]>>
                \o OrderByDateDesc(SubSeq(rows, 1, first - 1)
                                    \o SubSeq(rows, first + 1, Len(rows)))

\* The rows of the user: those of the owner's salon, or the guest's own, with the
\* status asked for when it is one of the four.
UserAppointments(user, status) ==
    LET mine(a) ==
            /\ a.saloon_id \in DOMAIN saloons
            /\ a.service_id \in DOMAIN saloon_services
            /\ IF user.roleId = OWNER_ROLE
               THEN saloons[a.saloon_id].owner_id = user.userId
               ELSE a.guest_id = user.userId
            /\ status \in AppointmentStatus => a.status = status
    IN  SelectSeq(appointments, mine)

\* LIMIT ? OFFSET ?
LimitOffset(rows, limit, offset) ==
    SubSeq(rows, offset + 1, IF offset + limit < Len(rows) THEN offset + limit ELSE Len(rows))

\* Math.ceil(total / limit)
TotalPages(total, limit) == (total + limit - 1) \div limit

GetUserAppointments(user, status, page, limit) ==
    /\ req' = [op |-> "getUserAppointments", user |-> user, status |-> status,
               page |-> page, limit |-> limit]
    /\ appointment' = NoRow
    /\ UNCHANGED <<saloons, saloon_services, appointments, now, tzOffset, candidates>>
    /\ IF user = NoToken
       THEN res' = Unauthorized
       ELSE IF user.roleId \notin {OWNER_ROLE, GUEST_ROLE}
       THEN res' = SendError("AuthorizationError")
       ELSE LET rows == UserAppointments(user, status)
            IN  res' = [ok |-> TRUE, kind |-> "success", code |-> 200,
                        appointments |->
                            LimitOffset(OrderByDateDesc(rows), limit, (page - 1) * limit),
                        pagination |-> [page |-> page, limit |-> limit,
                                        total |-> Len(rows),
                                        totalPages |-> TotalPages(Len(rows), limit)]]

(***************************************************************************)
(* Clock and calendar helpers.                                             *)
(***************************************************************************)
\* A TIME column as the driver returns it, "HH:MM:SS", kept as its digits HHMM.
TimeStr(h, m) == <<h \div 10, h % 10, m \div 10, m % 10>>

\* The instant of local wall-clock time hh:mm on local calendar day `day`.
LocalInstant(day, hh, mm) == day * MinutesPerDay + hh * 60 + mm - tzOffset

(***************************************************************************)
(* The availability engine (getSaloonAvailability and its helpers).        *)
(***************************************************************************)
slotInterval == 30
DefaultDuration == 60

UndefinedParam == [tag |-> "undefined", val |-> 0]
\* The query string "YYYY-MM-DD" of calendar day `day`.
DayString(day) == [tag |-> "day", val |-> day]

\* Date.getHours/getMinutes/getDate...: the local fields of an instant.
LocalDay(t) == (t + tzOffset) \div MinutesPerDay
LocalMinuteOfDay(t) == (t + tzOffset) % MinutesPerDay

\* date ? new Date(date) : new Date().  A date-only ISO string is UTC midnight.
TargetDate(date) ==
    IF date.tag = "undefined" THEN Num(now)
    ELSE IF date.tag = "day" THEN Num(date.val * MinutesPerDay)
    ELSE InvalidDate

\* targetDate.toISOString().split('T')[0]: the UTC calendar day.
DateString(targetDate) == targetDate \div MinutesPerDay

\* parseInt(time.split(':')[0]) and parseInt(time.split(':')[1])
ParseHour(time) == time[1] * 10 + time[2]
ParseMinute(time) == time[3] * 10 + time[4]

\* slotDate = new Date(targetDate); slotDate.setHours(hour, minute, 0, 0)
setHours(targetDate, hour, minute) ==
    LocalDay(targetDate) * MinutesPerDay + hour * 60 + minute - tzOffset

isSameDay(date1, date2) == LocalDay(date1) = LocalDay(date2)

formatTimeZeroHour(date) ==
    LET hours == LocalMinuteOfDay(date) \div 60
        minutes == LocalMinuteOfDay(date) % 60
    IN  [hours |-> hours % 12,
         minutes |-> <<minutes \div 10, minutes % 10>>,
         ampm |-> IF hours >= 12 THEN "PM" ELSE "AM"]

\* The string `${hours}:${formattedMinutes} ${ampm}` as its three parts: the hour
\* (printed without padding), the two characters of the minutes, and AM or PM.
formatTime(date) ==
    LET hours == LocalMinuteOfDay(date) \div 60
        minutes == LocalMinuteOfDay(date) % 60
    IN  [hours |-> IF hours % 12 = 0 THEN 12 ELSE hours % 12,
         minutes |-> <<minutes \div 10, minutes % 10>>,
         ampm |-> IF hours >= 12 THEN "PM" ELSE "AM"]

OverlapsInclusiveEnd(slotTime, slotEndTime, appointmentTime, appointmentEndTime) ==
    \/ slotTime >= appointmentTime /\ slotTime <= appointmentEndTime
    \/ slotEndTime > appointmentTime /\ slotEndTime <= appointmentEndTime
    \/ slotTime <= appointmentTime /\ slotEndTime >= appointmentEndTime

OverlapsNoEndClause(slotTime, slotEndTime, appointmentTime, appointmentEndTime) ==
    \/ slotTime >= appointmentTime /\ slotTime < appointmentEndTime
    \/ slotTime <= appointmentTime /\ slotEndTime >= appointmentEndTime

\* The three-clause test of isTimeSlotAvailable.
Overlaps(slotTime, slotEndTime, appointmentTime, appointmentEndTime) ==
    \/ slotTime >= appointmentTime /\ slotTime < appointmentEndTime
    \/ slotEndTime > appointmentTime /\ slotEndTime <= appointmentEndTime
    \/ slotTime <= appointmentTime /\ slotEndTime >= appointmentEndTime

\* A variant that also refuses a slot that ends after 17:00.
isTimeSlotAvailableEndsByFive(slotTime, slotDuration, existingAppointments) ==
    LET slotEndTime == slotTime + slotDuration
    IN  /\ LocalMinuteOfDay(slotTime) + slotDuration <= 17 * 60
        /\ \A i \in 1..Len(existingAppointments) :
              LET appointmentTime == existingAppointments[i].appointment_date
                  appointmentEndTime == appointmentTime + existingAppointments[i].duration
              IN  ~Overlaps(slotTime, slotEndTime, appointmentTime, appointmentEndTime)

isTimeSlotAvailable(slotTime, slotDuration, existingAppointments) ==
    LET slotEndTime == slotTime + slotDuration
    IN  \A i \in 1..Len(existingAppointments) :
            LET appointmentTime == existingAppointments[i].appointment_date
                appointmentEndTime == appointmentTime + existingAppointments[i].duration
            IN  ~Overlaps(slotTime, slotEndTime, appointmentTime, appointmentEndTime)

EndMinuteIncludesClosing(closingMinute) == closingMinute

\* endMinute = closingMinute - 1: the exact closing time is no slot.
EndMinuteOfClosingHour(closingMinute) == closingMinute - 1

RoundDownToInterval(startMinute) == (startMinute \div slotInterval) * slotInterval

\* Math.ceil(startMinute / slotInterval) * slotInterval
RoundUpToInterval(startMinute) ==
    ((startMinute + slotInterval - 1) \div slotInterval) * slotInterval

\* The inner loop: one slotDate per minute = startMinute, startMinute + 30, ... <= endMinute.
RECURSIVE MinuteLoop(_, _, _, _)
MinuteLoop(targetDate, hour, minute, endMinute) ==
    IF minute <= endMinute
    THEN <<setHours(targetDate, hour, minute)>>
            \o MinuteLoop(targetDate, hour, minute + slotInterval, endMinute)
    ELSE <<>>

HourSlotsThroughSixty(targetDate, hour, openingHour, openingMinute, closingHour, closingMinute) ==
    LET startMinute == IF hour = openingHour THEN openingMinute ELSE 0
        endMinute == IF hour = closingHour THEN EndMinuteOfClosingHour(closingMinute) ELSE 60
    IN  IF hour = closingHour /\ startMinute > endMinute
        THEN <<>>
        ELSE MinuteLoop(targetDate, hour, RoundUpToInterval(startMinute), endMinute)

HourSlotsNoRounding(targetDate, hour, openingHour, openingMinute, closingHour, closingMinute) ==
    LET startMinute == IF hour = openingHour THEN openingMinute ELSE 0
        endMinute == IF hour = closingHour THEN EndMinuteOfClosingHour(closingMinute) ELSE 59
    IN  IF hour = closingHour /\ startMinute > endMinute
        THEN <<>>
        ELSE MinuteLoop(targetDate, hour, startMinute, endMinute)

\* One pass of the outer loop.
HourSlots(targetDate, hour, openingHour, openingMinute, closingHour, closingMinute) ==
    LET startMinute == IF hour = openingHour THEN openingMinute ELSE 0
        endMinute == IF hour = closingHour THEN EndMinuteOfClosingHour(closingMinute) ELSE 59
    IN  IF hour = closingHour /\ startMinute > endMinute
        THEN <<>>
        ELSE MinuteLoop(targetDate, hour, RoundUpToInterval(startMinute), endMinute)

\* for (let hour = openingHour; hour <= closingHour; hour++)
RECURSIVE HourLoop(_, _, _, _, _, _)
HourLoop(targetDate, hour, openingHour, openingMinute, closingHour, closingMinute) ==
    IF hour <= closingHour
    THEN HourSlots(targetDate, hour, openingHour, openingMinute, closingHour, closingMinute)
            \o HourLoop(targetDate, hour + 1, openingHour, openingMinute, closingHour, closingMinute)
    ELSE <<>>

InThePastAnyDay(slotDate) == slotDate < now

\* Skip time slots in the past (for today).
InThePast(slotDate) == isSameDay(slotDate, now) /\ slotDate < now

CoalesceDurationHalfHour(duration) == IF duration.tag = "null" THEN 30 ELSE duration.val

\* COALESCE(ss.duration, 60)
CoalesceDuration(duration) == IF duration.tag = "null" THEN DefaultDuration ELSE duration.val

\* service.duration || 60
DurationOrDefault(duration) ==
    IF duration.tag = "null" \/ duration.val = 0 THEN DefaultDuration ELSE duration.val

RECURSIVE OrderByDate(_)
OrderByDate(rows) ==
    IF rows = <<>> THEN <<>>
    ELSE LET first == CHOOSE i \in 1..Len(rows) :
                        \A j \in 1..Len(rows) :
                            \/ rows[i].appointment_date < rows[j].appointment_date
                            \/ rows[i].appointment_date = rows[j].appointment_date /\ i <= j
         IN  <<rows[first]>>
                \o OrderByDate(SubSeq(rows, 1, first - 1) \o SubSeq(rows, first + 1, Len(rows)))

ExistingAppointmentsNotCancelled(id, dateString, service_id) ==
    LET matches(a) ==
            /\ a.saloon_id = id
            /\ LocalDay(a.appointment_date) = dateString
            /\ a.status # CANCELLED
            /\ service_id.tag = "number" => a.service_id = service_id.val
        row(a) == [appointment_date |-> a.appointment_date,
                   duration |-> CoalesceDuration(saloon_services[a.service_id].duration)]
        selected == SelectSeq(appointments, matches)
    IN  OrderByDate([i \in 1..Len(selected) |-> row(selected[i])])

\* The rows are kept from one query to the next until a write is requested.
ExistingAppointmentsMemoised(id, dateString, service_id) ==
    LET matches(a) ==
            /\ a.saloon_id = id
            /\ LocalDay(a.appointment_date) = dateString
            /\ a.status \in {PENDING, CONFIRMED}
            /\ service_id.tag = "number" => a.service_id = service_id.val
        row(a) == [appointment_date |-> a.appointment_date,
                   duration |-> CoalesceDuration(saloon_services[a.service_id].duration)]
        selected == SelectSeq(appointments, matches)
    IN  IF req.op = "getSaloonAvailability" /\ res.ok
        THEN candidates.appointments
        ELSE OrderByDate([i \in 1..Len(selected) |-> row(selected[i])])

\* The SELECT of the existing appointments of the salon and day.
ExistingAppointments(id, dateString, service_id) ==
    LET matches(a) ==
            /\ a.saloon_id = id
            /\ LocalDay(a.appointment_date) = dateString
            /\ a.status \in {PENDING, CONFIRMED}
            /\ service_id.tag = "number" => a.service_id = service_id.val
        row(a) == [appointment_date |-> a.appointment_date,
                   duration |-> CoalesceDuration(saloon_services[a.service_id].duration)]
        selected == SelectSeq(appointments, matches)
    IN  OrderByDate([i \in 1..Len(selected) |-> row(selected[i])])

AvailabilityCatchAll(kind) == "DatabaseError"

\* The catch block of getSaloonAvailability.
AvailabilityCatch(kind) ==
    IF kind \in {"NotFoundError", "ValidationError"} THEN kind ELSE "DatabaseError"

AvailabilityThrows(id, service_id) ==
    IF id \notin DOMAIN saloons THEN "NotFoundError"
    ELSE IF service_id.tag = "number"
            /\ ~(service_id.val \in DOMAIN saloon_services
                 /\ saloon_services[service_id.val].saloon_id = id)
    THEN "NotFoundError"
    ELSE "none"

GetSaloonAvailability(id, date, service_id) ==
    /\ req' = [op |-> "getSaloonAvailability", id |-> id, date |-> date,
               service_id |-> service_id]
    /\ appointment' = NoRow
    /\ UNCHANGED <<saloons, saloon_services, appointments, now, tzOffset>>
    /\ IF TargetDate(date).tag # "number"
       THEN /\ res' = SendError("ValidationError")
            /\ candidates' = NoCandidates
       ELSE IF AvailabilityThrows(id, service_id) # "none"
       THEN /\ res' = SendError(AvailabilityCatch(AvailabilityThrows(id, service_id)))
            /\ candidates' = NoCandidates
       ELSE LET targetDate == TargetDate(date).val
                openingTime == saloons[id].opening_time
                closingTime == saloons[id].closing_time
                serviceDuration ==
                    IF service_id.tag = "number"
                    THEN DurationOrDefault(saloon_services[service_id.val].duration)
                    ELSE DefaultDuration
                notPast(slotDate) == ~InThePast(slotDate)
            IN  \E existing \in {ExistingAppointments(id, DateString(targetDate), service_id)},
                   generated \in {HourLoop(targetDate, ParseHour(openingTime),
                                           ParseHour(openingTime), ParseMinute(openingTime),
                                           ParseHour(closingTime), ParseMinute(closingTime))} :
                  \E kept \in {SelectSeq(generated, notPast)} :
                    LET free(slotDate) ==
                            isTimeSlotAvailable(slotDate, serviceDuration, existing)
                    IN  \E availableSlots \in {SelectSeq(kept, free)} :
                          /\ candidates' = [generated |-> generated, kept |-> kept,
                                            appointments |-> existing]
                          /\ res' = [ok |-> TRUE, kind |-> "success", code |-> 200,
                                     date |-> DateString(targetDate),
                                     available_slots |->
                                        [i \in 1..Len(availableSlots) |->
                                            [time |-> availableSlots[i],
                                             formatted_time |-> formatTime(availableSlots[i])]]]

(***************************************************************************)
(* Salons and their business hours (createSaloon, updateSaloon).           *)
(***************************************************************************)
\* The field opening_time or closing_time of a request body: missing, the empty
\* string (or null), a string that is not HH:MM, or HH:MM.
NoTime == [tag |-> "undefined", h |-> 0, m |-> 0]
EmptyTime == [tag |-> "empty", h |-> 0, m |-> 0]
MalformedTime == [tag |-> "malformed", h |-> 0, m |-> 0]
Time(h, m) == [tag |-> "time", h |-> h, m |-> m]

\* /^([01]\d|2[0-3]):([0-5]\d)$/
timePattern(time) == time.tag = "time" /\ time.h \in 0..23 /\ time.m \in 0..59

\* A JavaScript string is truthy unless it is empty.
Truthy(time) == time.tag \in {"time", "malformed"}

\* Not (openingHour > closingHour || (openingHour === closingHour &&
\* openingMinute >= closingMinute)).
ClosingAfterOpening(opening_time, closing_time) ==
    ~(\/ opening_time.h > closing_time.h
      \/ opening_time.h = closing_time.h /\ opening_time.m >= closing_time.m)

\* opening_time and closing_time of createSaloonSchema: a missing field takes its
\* default, any other must match the pattern; then the custom rule compares the two.
createSaloonSchema(opening_time, closing_time) ==
    LET opening == IF opening_time.tag = "undefined" THEN Time(9, 0) ELSE opening_time
        closing == IF closing_time.tag = "undefined" THEN Time(17, 0) ELSE closing_time
    IN  /\ timePattern(opening)
        /\ timePattern(closing)
        /\ ClosingAfterOpening(opening, closing)

\* authorizeOwner: an authenticated user who is no owner.
Forbidden == [ok |-> FALSE, kind |-> "Forbidden", code |-> 403]

\* time || default
TimeOrDefault(time, default) == IF Truthy(time) THEN time ELSE default

CreateCatch(kind) == IF kind = "ConflictError" THEN kind ELSE "DatabaseError"

\* result.insertId of the AUTO_INCREMENT key.
InsertId == Cardinality(DOMAIN saloons) + 1

createSaloon(user, opening_time, closing_time) ==
    /\ req' = [op |-> "createSaloon", user |-> user, opening_time |-> opening_time,
               closing_time |-> closing_time]
    /\ appointment' = NoRow
    /\ UNCHANGED <<saloon_services, appointments, now, tzOffset, candidates>>
    /\ IF user = NoToken
       THEN /\ res' = Unauthorized
            /\ UNCHANGED saloons
       ELSE IF user.roleId # OWNER_ROLE
       THEN /\ res' = Forbidden
            /\ UNCHANGED saloons
       ELSE IF ~createSaloonSchema(opening_time, closing_time)
       THEN /\ res' = SendError("ValidationError")
            /\ UNCHANGED saloons
       ELSE IF \E id \in DOMAIN saloons : saloons[id].owner_id = user.userId
       THEN /\ res' = SendError(CreateCatch("ConflictError"))
            /\ UNCHANGED saloons
       ELSE LET openingTime == TimeOrDefault(opening_time, Time(9, 0))
                closingTime == TimeOrDefault(closing_time, Time(17, 0))
            IN  /\ saloons' = saloons @@
                      (InsertId :> [owner_id |-> user.userId,
                                    opening_time |-> TimeStr(openingTime.h, openingTime.m),
                                    closing_time |-> TimeStr(closingTime.h, closingTime.m)])
                /\ res' = SendSuccess(201)

SaloonUpdateCatch(kind) ==
    IF kind \in {"NotFoundError", "ValidationError", "AuthorizationError"}
    THEN kind
    ELSE "DatabaseError"

\* The checks of opening_time and closing_time in updateSaloon: the two are
\* compared only when both are given.
SaloonTimesThrow(opening_time, closing_time) ==
    IF Truthy(opening_time) /\ ~timePattern(opening_time) THEN "ValidationError"
    ELSE IF Truthy(closing_time) /\ ~timePattern(closing_time) THEN "ValidationError"
    ELSE IF /\ Truthy(opening_time) /\ Truthy(closing_time)
            /\ ~ClosingAfterOpening(opening_time, closing_time)
    THEN "ValidationError"
    ELSE "none"

\* What the try block of updateSaloon throws before the UPDATE; `name` stands for
\* the other fields of the body.
SaloonUpdateThrows(user, id, name, opening_time, closing_time) ==
    IF id \notin DOMAIN saloons THEN "NotFoundError"
    ELSE IF saloons[id].owner_id # user.userId THEN "AuthorizationError"
    ELSE IF SaloonTimesThrow(opening_time, closing_time) # "none"
    THEN SaloonTimesThrow(opening_time, closing_time)
    ELSE IF ~(name.tag = "string" /\ name.len > 0)
            /\ ~Truthy(opening_time) /\ ~Truthy(closing_time)
    THEN "ValidationError"
    ELSE "none"

updateSaloon(user, id, name, opening_time, closing_time) ==
    /\ req' = [op |-> "updateSaloon", user |-> user, id |-> id, name |-> name,
               opening_time |-> opening_time, closing_time |-> closing_time]
    /\ appointment' = NoRow
    /\ UNCHANGED <<saloon_services, appointments, now, tzOffset, candidates>>
    /\ IF user = NoToken
       THEN /\ res' = Unauthorized
            /\ UNCHANGED saloons
       ELSE IF user.roleId # OWNER_ROLE
       THEN /\ res' = Forbidden
            /\ UNCHANGED saloons
       ELSE LET thrown == SaloonUpdateThrows(user, id, name, opening_time, closing_time)
            IN  IF thrown # "none"
                THEN /\ res' = SendError(SaloonUpdateCatch(thrown))
                     /\ UNCHANGED saloons
                ELSE /\ saloons' = [saloons EXCEPT
                            ![id].opening_time =
                                IF Truthy(opening_time)
                                THEN TimeStr(opening_time.h, opening_time.m) ELSE @,
                            ![id].closing_time =
                                IF Truthy(closing_time)
                                THEN TimeStr(closing_time.h, closing_time.m) ELSE @]
                     /\ res' = SendSuccess(200)

(***************************************************************************)
(* Spec: the status state machine.  Two salons of two owners; guest 4      *)
(* books at salon 1, and every user sends every status update.             *)
(***************************************************************************)
TwoSaloons ==
    (1 :> [owner_id |-> 2, opening_time |-> TimeStr(9, 0), closing_time |-> TimeStr(17, 0)])
    @@ (2 :> [owner_id |-> 3, opening_time |-> TimeStr(10, 0), closing_time |-> TimeStr(18, 30)])

TwoServices ==
    (1 :> [saloon_id |-> 1, duration |-> Num(30)])
    @@ (2 :> [saloon_id |-> 2, duration |-> NullNum])

Init ==
    /\ saloons = TwoSaloons
    /\ saloon_services = TwoServices
    /\ appointments = <<>>
    /\ tzOffset = 0
    /\ now = LocalInstant(1, 11, 15)
    /\ req = NoRequest
    /\ appointment = NoRow
    /\ candidates = NoCandidates
    /\ res = NoResponse
    /\ clients = NothingSeen
    /\ handlers = NoHandlers
    /\ writes = {}

StatusInputs == AppointmentStatus \cup {"bogus"}
UpdateNotesInputs == {Undefined, Str("hi", 2), Str("long", 501)}

Book ==
    /\ Len(appointments) < MaxAppointments
    /\ UNCHANGED <<clients, handlers, writes>>
    /\ \E notes \in {Undefined, Str("hi", 2)} :
        BookAppointment([userId |-> 4, roleId |-> GUEST_ROLE], 1, 1,
                        Num(LocalInstant(2, 10, 0)), notes, "absent", "none")

Update ==
    /\ UNCHANGED <<clients, handlers, writes>>
    /\ \E user \in Tokens, id \in 1..(MaxAppointments + 1), status \in StatusInputs,
          notes \in UpdateNotesInputs :
           UpdateAppointmentStatus(user, id, status, notes)

Next == Book \/ Update

Spec == Init /\ [][Next]_vars

(***************************************************************************)
(* SpecBooking: booking requests of every user, with well-formed and       *)
(* malformed bodies.                                                       *)
(***************************************************************************)
BookUserInputs ==
    { NoToken,
      [userId |-> 1, roleId |-> ADMIN_ROLE],
      [userId |-> 2, roleId |-> OWNER_ROLE],
      [userId |-> 4, roleId |-> GUEST_ROLE],
      [userId |-> 5, roleId |-> GUEST_ROLE] }
BookSaloonInputs == {1, 9}
BookServiceInputs == {1, 2}
BookDateInputs ==
    {InvalidDate, Num(LocalInstant(1, 9, 0)), Num(LocalInstant(2, 10, 0))}
BookNotesInputs == {Undefined, Str("", 0), Str("hi", 2), Str("long", 501)}
BodyStatusInputs == {"absent", CONFIRMED}
\* The INSERT stores the row, or is rejected as a duplicate, or the connection drops.
InsertErrorInputs == {"none", "ER_DUP_ENTRY", "ECONNRESET"}

BookAny ==
    /\ Len(appointments) < MaxAppointments
    /\ UNCHANGED <<clients, handlers, writes>>
    /\ \E user \in BookUserInputs, saloon_id \in BookSaloonInputs,
          service_id \in BookServiceInputs, appointment_date \in BookDateInputs,
          notes \in BookNotesInputs, body_status \in BodyStatusInputs,
          insertError \in InsertErrorInputs :
        BookAppointment(user, saloon_id, service_id, appointment_date, notes, body_status,
                        insertError)

NextBooking == BookAny

SpecBooking == Init /\ [][NextBooking]_vars

(***************************************************************************)
(* SpecSlots: availability queries against salons of many business hours,  *)
(* in several server timezones and at several times of the day.            *)
(***************************************************************************)
HourInputs == {0, 9, 10, 17, 23}
MinuteInputs == {0, 1, 15, 30, 31, 45, 59}
TimeInputs == {TimeStr(h, m) : h \in HourInputs, m \in MinuteInputs}
TzOffsets == {0 - 300, 0, 330}
NowInputs == {<<11, 15>>, <<11, 30>>, <<0, 10>>}

\* Day 1 is today.  One pending booking of salon 1, service 1 (30 minutes), today at
\* 10:00 local time.
OneBooked ==
    << [guest_id |-> 4, saloon_id |-> 1, service_id |-> 1,
        appointment_date |-> LocalInstant(1, 10, 0),
        status |-> PENDING, notes |-> Null] >>

InitSlots ==
    /\ \E opening \in TimeInputs, closing \in TimeInputs :
          saloons = [TwoSaloons EXCEPT ![1].opening_time = opening,
                                       ![1].closing_time = closing]
    /\ saloon_services = TwoServices
    /\ tzOffset \in TzOffsets
    /\ \E t \in NowInputs : now = LocalInstant(1, t[1], t[2])
    /\ appointments \in {<<>>, OneBooked}
    /\ req = NoRequest
    /\ appointment = NoRow
    /\ candidates = NoCandidates
    /\ res = NoResponse
    /\ clients = NothingSeen
    /\ handlers = NoHandlers
    /\ writes = {}

AvailabilityDateInputs ==
    {UndefinedParam, InvalidDate, DayString(0), DayString(1), DayString(2)}

\* One query per store: the handler reads the store and the clock and writes nothing.
Availability ==
    /\ res = NoResponse
    /\ UNCHANGED <<clients, handlers, writes>>
    /\ \E id \in {1, 9}, date \in AvailabilityDateInputs,
          service_id \in {UndefinedParam, Num(1)} :
        GetSaloonAvailability(id, date, service_id)

NextSlots == Availability

SpecSlots == InitSlots /\ [][NextSlots]_vars

(***************************************************************************)
(* SpecOverlap: isTimeSlotAvailable applied to a candidate slot and a list *)
(* of existing appointments around 10:00.                                  *)
(***************************************************************************)
MaxExisting == 2

\* The instant of hh:mm UTC on day `day`.
At(day, hh, mm) == day * MinutesPerDay + hh * 60 + mm

OverlapTimes ==
    {At(1, 9, 30), At(1, 9, 45), At(1, 10, 0), At(1, 10, 15),
     At(1, 10, 30), At(1, 10, 45)}
SlotDurations == {15, 30, 45, 60, 90}
ExistingRows == [appointment_date : OverlapTimes, duration : {15, 30, 60}]

InitOverlap ==
    /\ saloons = TwoSaloons
    /\ saloon_services = TwoServices
    /\ appointments = <<>>
    /\ tzOffset = 0
    /\ now = At(1, 8, 0)
    /\ \E slotTime \in OverlapTimes, slotDuration \in SlotDurations, n \in 0..MaxExisting :
          \E existingAppointments \in [1..n -> ExistingRows] :
              req = [op |-> "isTimeSlotAvailable", slotTime |-> slotTime,
                     slotDuration |-> slotDuration,
                     existingAppointments |-> existingAppointments]
    /\ appointment = NoRow
    /\ candidates = NoCandidates
    /\ res = NoResponse
    /\ clients = NothingSeen
    /\ handlers = NoHandlers
    /\ writes = {}

CallIsTimeSlotAvailable ==
    /\ req.op = "isTimeSlotAvailable"
    /\ res = NoResponse
    /\ res' = [ok |-> TRUE, kind |-> "returned", code |-> 0,
               value |-> isTimeSlotAvailable(req.slotTime, req.slotDuration,
                                             req.existingAppointments)]
    /\ UNCHANGED <<saloons, saloon_services, appointments, now, tzOffset, req,
                   appointment, candidates, clients, handlers, writes>>

NextOverlap == CallIsTimeSlotAvailable

SpecOverlap == InitOverlap /\ [][NextOverlap]_vars

(***************************************************************************)
(* SpecCalendar: availability queries against a store of appointments of   *)
(* several services, salons, days and statuses; the salon's owner moves    *)
(* the appointments through their statuses between the queries.            *)
(***************************************************************************)
MaxBooked == 2

\* Salon 1 offers service 1 (30 minutes) and service 3, salon 2 offers service 2.
ThreeServices(duration) ==
    (1 :> [saloon_id |-> 1, duration |-> Num(30)])
    @@ (2 :> [saloon_id |-> 2, duration |-> NullNum])
    @@ (3 :> [saloon_id |-> 1, duration |-> duration])

ServiceDurations == {NullNum, Num(60)}

\* Pending bookings of guest 4, as <<salon, service, day, hour, minute>>: at salon 1
\* today at 10:00 (either service) and 10:30 and tomorrow at 10:00, at salon 2 today
\* at 10:00.
BookedRows ==
    { [guest_id |-> 4, saloon_id |-> b[1], service_id |-> b[2],
       appointment_date |-> LocalInstant(b[3], b[4], b[5]),
       status |-> PENDING, notes |-> Null] :
        b \in {<<1, 1, 1, 10, 0>>, <<1, 3, 1, 10, 0>>, <<1, 3, 1, 10, 30>>,
               <<1, 1, 2, 10, 0>>, <<2, 2, 1, 10, 0>>} }

InitCalendar ==
    /\ saloons = TwoSaloons
    /\ \E duration \in ServiceDurations : saloon_services = ThreeServices(duration)
    /\ tzOffset \in TzOffsets
    /\ now = LocalInstant(1, 9, 40)
    /\ \E n \in 0..MaxBooked : appointments \in [1..n -> BookedRows]
    /\ req = NoRequest
    /\ appointment = NoRow
    /\ candidates = NoCandidates
    /\ res = NoResponse
    /\ clients = NothingSeen
    /\ handlers = NoHandlers
    /\ writes = {}

CalendarDateInputs == {UndefinedParam, DayString(1), DayString(2)}
CalendarServiceInputs == {UndefinedParam, Num(1), Num(2), Num(3), Num(7)}

\* A query is served whenever the last request was not a query: the handler reads
\* the store and writes nothing.
CalendarQuery ==
    /\ req.op # "getSaloonAvailability"
    /\ UNCHANGED <<clients, handlers, writes>>
    /\ \E id \in {1, 9}, date \in CalendarDateInputs, service_id \in CalendarServiceInputs :
          GetSaloonAvailability(id, date, service_id)

\* The owner of salon 1 confirms, cancels or completes an appointment.
CalendarUpdate ==
    /\ UNCHANGED <<clients, handlers, writes>>
    /\ \E id \in 1..Len(appointments), status \in {CONFIRMED, CANCELLED, COMPLETED} :
          UpdateAppointmentStatus([userId |-> 2, roleId |-> OWNER_ROLE], id, status, Undefined)

NextCalendar == CalendarQuery \/ CalendarUpdate

SpecCalendar == InitCalendar /\ [][NextCalendar]_vars

(***************************************************************************)
(* SpecClients: the two guests ask for the availability of salon 1 and     *)
(* book the 10:00 slot they were offered.                                  *)
(***************************************************************************)
\* One pending booking of salon 1, service 1, today at 10:30 local time.
HalfPastTenBooked ==
    << [guest_id |-> 4, saloon_id |-> 1, service_id |-> 1,
        appointment_date |-> LocalInstant(1, 10, 30),
        status |-> PENDING, notes |-> Null] >>

InitClients ==
    /\ saloons = TwoSaloons
    /\ saloon_services = TwoServices
    /\ tzOffset \in TzOffsets
    /\ now = LocalInstant(1, 9, 40)
    /\ appointments \in {<<>>, HalfPastTenBooked}
    /\ req = NoRequest
    /\ appointment = NoRow
    /\ candidates = NoCandidates
    /\ res = NoResponse
    /\ clients = NothingSeen
    /\ handlers = NoHandlers
    /\ writes = {}

\* Client c asks for the availability of salon 1 and keeps the answer.
ClientQuery(c) ==
    /\ \E date \in {DayString(1), DayString(2)}, service_id \in {UndefinedParam, Num(1)} :
          GetSaloonAvailability(1, date, service_id)
    /\ clients' = [clients EXCEPT ![c] = [asked |-> req', answer |-> res',
                                         store |-> appointments]]
    /\ UNCHANGED <<handlers, writes>>

\* The instant of the 10:00 slot in the answer client c holds, if it was offered.
TenOClockOffered(c) ==
    IF clients[c].answer.ok
    THEN {clients[c].answer.available_slots[k].time :
            k \in {j \in 1..Len(clients[c].answer.available_slots) :
                      LocalMinuteOfDay(clients[c].answer.available_slots[j].time) = 10 * 60}}
    ELSE {}

\* Client c books, as guest c, the 10:00 slot of the answer it holds.
ClientBook(c) ==
    /\ Len(appointments) <= MaxAppointments
    /\ UNCHANGED <<clients, handlers, writes>>
    /\ \E slot \in TenOClockOffered(c), notes \in {Undefined, Str("long", 501)} :
          BookAppointment([userId |-> c, roleId |-> GUEST_ROLE], 1, 1, Num(slot),
                          notes, "absent", "none")

NextClients == \E c \in Clients : ClientQuery(c) \/ ClientBook(c)

SpecClients == InitClients /\ [][NextClients]_vars

(***************************************************************************)
(* SpecHours: owner 2 has salon 1; owners, a guest and an anonymous caller *)
(* create salons and update their business hours.                          *)
(***************************************************************************)
InitHours ==
    /\ saloons = (1 :> [owner_id |-> 2, opening_time |-> TimeStr(9, 0),
                        closing_time |-> TimeStr(17, 0)])
    /\ saloon_services = TwoServices
    /\ appointments = <<>>
    /\ tzOffset = 0
    /\ now = LocalInstant(1, 11, 15)
    /\ req = NoRequest
    /\ appointment = NoRow
    /\ candidates = NoCandidates
    /\ res = NoResponse
    /\ clients = NothingSeen
    /\ handlers = NoHandlers
    /\ writes = {}

TimeFieldInputs == {NoTime, EmptyTime, MalformedTime, Time(9, 0), Time(17, 0)}

SaloonUserInputs ==
    { NoToken,
      [userId |-> 2, roleId |-> OWNER_ROLE],
      [userId |-> 3, roleId |-> OWNER_ROLE],
      [userId |-> 4, roleId |-> GUEST_ROLE] }

CreateHours ==
    /\ UNCHANGED <<clients, handlers, writes>>
    /\ \E user \in SaloonUserInputs, opening_time \in TimeFieldInputs,
          closing_time \in TimeFieldInputs :
          createSaloon(user, opening_time, closing_time)

UpdateHours ==
    /\ UNCHANGED <<clients, handlers, writes>>
    /\ \E user \in SaloonUserInputs \ {NoToken}, id \in {1, 2},
          name \in {Undefined, Str("Salon", 5)},
          opening_time \in TimeFieldInputs, closing_time \in TimeFieldInputs :
          updateSaloon(user, id, name, opening_time, closing_time)

NextHours == CreateHours \/ UpdateHours

SpecHours == InitHours /\ [][NextHours]_vars

(***************************************************************************)
(* SpecLookup: one availability query for an existing or a missing salon,  *)
(* with no service, a service of the salon, a service of the other salon   *)
(* or a missing service, and a valid, a missing or a malformed date.       *)
(***************************************************************************)
LookupQuery ==
    /\ res = NoResponse
    /\ UNCHANGED <<clients, handlers, writes>>
    /\ \E id \in {1, 2, 9}, date \in {UndefinedParam, InvalidDate, DayString(1)},
          service_id \in {UndefinedParam, Num(1), Num(2), Num(7)} :
          GetSaloonAvailability(id, date, service_id)

NextLookup == LookupQuery

SpecLookup == InitClients /\ [][NextLookup]_vars

(***************************************************************************)
(* SpecStore: every handler that touches the appointments table: guests    *)
(* book, users list, anyone queries, owner and guests update, in any       *)
(* order.                                                                  *)
(***************************************************************************)
StoreBook ==
    /\ Len(appointments) <= MaxAppointments
    /\ UNCHANGED <<clients, handlers, writes>>
    /\ \E user \in {[userId |-> 2, roleId |-> OWNER_ROLE],
                     [userId |-> 4, roleId |-> GUEST_ROLE],
                     [userId |-> 5, roleId |-> GUEST_ROLE]},
          service_id \in {1, 2},
          appointment_date \in {Num(LocalInstant(1, 9, 0)), Num(LocalInstant(2, 10, 0))},
          insertError \in {"none", "ER_DUP_ENTRY"} :
          BookAppointment(user, 1, service_id, appointment_date, Undefined, "absent",
                          insertError)

StoreUpdate ==
    /\ UNCHANGED <<clients, handlers, writes>>
    /\ \E user \in {[userId |-> 2, roleId |-> OWNER_ROLE],
                     [userId |-> 4, roleId |-> GUEST_ROLE]},
          id \in 1..(MaxAppointments + 1), status \in StatusInputs,
          notes \in {Undefined, Str("hi", 2)} :
          UpdateAppointmentStatus(user, id, status, notes)

StoreQuery ==
    /\ UNCHANGED <<clients, handlers, writes>>
    /\ \E id \in {1, 9}, service_id \in {UndefinedParam, Num(1)} :
          GetSaloonAvailability(id, DayString(2), service_id)

StoreList ==
    /\ UNCHANGED <<clients, handlers, writes>>
    /\ \E user \in {NoToken, [userId |-> 1, roleId |-> ADMIN_ROLE],
                     [userId |-> 2, roleId |-> OWNER_ROLE],
                     [userId |-> 4, roleId |-> GUEST_ROLE]},
          status \in {"", PENDING, "bogus"}, limit \in {1, 10} :
          GetUserAppointments(user, status, 1, limit)

NextStore == StoreBook \/ StoreUpdate \/ StoreQuery \/ StoreList

SpecStore == Init /\ [][NextStore]_vars

(***************************************************************************)
(* Properties of the status state machine.                                 *)
(***************************************************************************)
\* The transition table of the specification: <<actor is owner, current, target>>.
TransitionTable ==
    { <<TRUE, PENDING, CONFIRMED>>, <<TRUE, PENDING, CANCELLED>>,
      <<TRUE, CONFIRMED, COMPLETED>>, <<TRUE, CONFIRMED, CANCELLED>>,
      <<FALSE, PENDING, CANCELLED>>, <<FALSE, CONFIRMED, CANCELLED>> }

\* The actor is the owner of the appointment's salon or the appointment's guest.
Eligible(user, row) ==
    \/ user.roleId = OWNER_ROLE /\ user.userId = row.owner_id
    \/ user.roleId = GUEST_ROLE /\ user.userId = row.guest_id

\* The last request was a status update that found its appointment.
UpdateDecided == req.op = "updateAppointmentStatus" /\ appointment.found

\* The addressed row is as the handler read it.
RowUnchanged ==
    /\ appointments[req.id].status = appointment.status
    /\ appointments[req.id].notes = appointment.notes

\* C1: isValidStatusTransition is true exactly for the triples of the transition
\* table (so every self-transition is refused), and an eligible actor's update
\* succeeds exactly when its (role, current, target) is in the table.
C1_TransitionTable ==
    /\ \A cur \in AppointmentStatus, new \in AppointmentStatus, isOwner \in BOOLEAN :
          /\ isValidStatusTransition(cur, new, isOwner) = (<<isOwner, cur, new>> \in TransitionTable)
          /\ ~isValidStatusTransition(cur, cur, isOwner)
    /\ (UpdateDecided /\ Eligible(req.user, appointment))
          => (res.ok = (<<req.user.roleId = OWNER_ROLE, appointment.status, req.status>>
                            \in TransitionTable))

\* C1 witness: the owner asked for pending -> pending and was refused.
C1_Witness ==
    /\ UpdateDecided
    /\ req.user.roleId = OWNER_ROLE /\ Eligible(req.user, appointment)
    /\ appointment.status = PENDING /\ req.status = PENDING
    /\ ~res.ok

\* C2: once cancelled or completed, an appointment's status never changes, and
\* every later update request addressed to it is refused.
C2_TerminalIsFinal ==
    [][\A i \in 1..Len(appointments) :
          appointments[i].status \in {CANCELLED, COMPLETED}
            => /\ i <= Len(appointments')
               /\ appointments'[i].status = appointments[i].status
               /\ (req'.op = "updateAppointmentStatus" /\ req'.id = i) => ~res'.ok]_vars

\* C2 witness: the salon's owner tried to confirm a cancelled appointment.
C2_Witness ==
    /\ UpdateDecided
    /\ Eligible(req.user, appointment) /\ req.user.roleId = OWNER_ROLE
    /\ appointment.status = CANCELLED /\ req.status = CONFIRMED
    /\ ~res.ok /\ appointments[req.id].status = CANCELLED

\* The request addresses an existing appointment, with a status among the four,
\* and comes from an authenticated actor who is neither the salon's owner nor the guest.
OutsiderUpdate ==
    /\ req.op = "updateAppointmentStatus"
    /\ req.user \in Tokens
    /\ req.status \in AppointmentStatus
    /\ req.id \in 1..Len(appointments)
    /\ ~Eligible(req.user, [owner_id |-> saloons[appointments[req.id].saloon_id].owner_id,
                            guest_id |-> appointments[req.id].guest_id])

\* C3 as stated: every such request fails with AuthorizationError.
C3_Original == OutsiderUpdate => res.kind = "AuthorizationError"

\* C3 (amended): such a request whose notes pass the schema fails with
\* AuthorizationError (403) whatever the current and the target status, and the
\* appointment is left as it was.
C3_OutsiderRefused ==
    (OutsiderUpdate /\ NotesValid(req.notes))
        => /\ res = [ok |-> FALSE, kind |-> "AuthorizationError", code |-> 403]
           /\ appointment.found
           /\ RowUnchanged

\* C3 witness: an owner of another salon asked for a transition the table allows
\* to owners, and was refused.
C3_Witness ==
    /\ OutsiderUpdate /\ NotesValid(req.notes)
    /\ req.user.roleId = OWNER_ROLE
    /\ appointment.found /\ appointment.status = PENDING /\ req.status = CONFIRMED
    /\ req.notes.tag = "string"
    /\ res.kind = "AuthorizationError"

\* C4: a booking step that stores a row stores exactly one, with status pending,
\* for a guest; a booking request of an owner or an admin fails with
\* AuthorizationError and stores nothing.
C4_BookedPending ==
    [][/\ appointments' # appointments
          => /\ req'.op = "bookAppointment"
             /\ req'.user.roleId = GUEST_ROLE
             /\ res'.ok
             /\ Len(appointments') = Len(appointments) + 1
             /\ SubSeq(appointments', 1, Len(appointments)) = appointments
             /\ appointments'[Len(appointments')].status = PENDING
             /\ appointments'[Len(appointments')].guest_id = req'.user.userId
       /\ (req'.op = "bookAppointment" /\ req'.user.roleId \in {ADMIN_ROLE, OWNER_ROLE})
          => /\ res' = [ok |-> FALSE, kind |-> "AuthorizationError", code |-> 403]
             /\ appointments' = appointments]_vars

\* C4 witness: a guest booked with status "confirmed" in the body; the row is pending.
C4_Witness ==
    /\ req.op = "bookAppointment" /\ res.ok
    /\ req.status = CONFIRMED
    /\ appointments[Len(appointments)].status = PENDING

\* C5: an eligible actor's request for a transition outside the table fails with
\* ValidationError, HTTP 400, and the row keeps its status and notes.
C5_InvalidTransitionIs400 ==
    (/\ UpdateDecided
     /\ Eligible(req.user, appointment)
     /\ <<req.user.roleId = OWNER_ROLE, appointment.status, req.status>> \notin TransitionTable)
        => /\ res = [ok |-> FALSE, kind |-> "ValidationError", code |-> 400]
           /\ RowUnchanged

\* C5 witness: the guest asked to confirm their pending appointment, with new notes.
C5_Witness ==
    /\ UpdateDecided
    /\ Eligible(req.user, appointment) /\ req.user.roleId = GUEST_ROLE
    /\ appointment.status = PENDING /\ req.status = CONFIRMED
    /\ req.notes = Str("hi", 2) /\ appointment.notes = Null
    /\ res.code = 400

(***************************************************************************)
(* Properties of the overlap test.                                         *)
(***************************************************************************)
\* Half-open intervals [s1, e1) and [s2, e2) overlap.
HalfOpenOverlap(s1, e1, s2, e2) == s1 < e2 /\ s2 < e1

OverlapCall == req.op = "isTimeSlotAvailable"
OverlapReturned == OverlapCall /\ res.kind = "returned"

\* C6: for positive durations the three-clause test is the half-open overlap
\* s1 < e2 /\ s2 < e1, and isTimeSlotAvailable is true iff the candidate overlaps
\* none of the appointments (touching intervals do not overlap).
C6_HalfOpenEquivalence ==
    OverlapCall =>
        LET s1 == req.slotTime
            e1 == req.slotTime + req.slotDuration
            rows == req.existingAppointments
            s2(i) == rows[i].appointment_date
            e2(i) == rows[i].appointment_date + rows[i].duration
        IN  /\ \A i \in 1..Len(rows) :
                  Overlaps(s1, e1, s2(i), e2(i)) = HalfOpenOverlap(s1, e1, s2(i), e2(i))
            /\ OverlapReturned =>
                  res.value = (\A i \in 1..Len(rows) : ~HalfOpenOverlap(s1, e1, s2(i), e2(i)))

\* C6 witness: a candidate that ends exactly when one appointment starts and starts
\* exactly when another ends was found available.
C6_Witness ==
    /\ OverlapReturned
    /\ res.value
    /\ \E i \in 1..Len(req.existingAppointments) :
          req.slotTime + req.slotDuration = req.existingAppointments[i].appointment_date
    /\ \E i \in 1..Len(req.existingAppointments) :
          req.slotTime = req.existingAppointments[i].appointment_date
                            + req.existingAppointments[i].duration

\* One existing appointment, 10:00 to 10:30.
TenToHalfPast ==
    /\ OverlapReturned
    /\ req.existingAppointments = <<[appointment_date |-> At(1, 10, 0), duration |-> 30]>>

\* C7 as stated: 10:30 is available for every duration, 09:45 for 30 minutes is
\* available, 10:00 is not.
C7_Original ==
    TenToHalfPast =>
        /\ req.slotTime = At(1, 10, 30) => res.value
        /\ (req.slotTime = At(1, 9, 45) /\ req.slotDuration = 30) => res.value
        /\ req.slotTime = At(1, 10, 0) => ~res.value

\* C7 (amended): 10:30 is available for every duration; 09:45 for 30 minutes
\* (ending 10:15) is not available; 10:00 is not available.
C7_BoundaryExamples ==
    TenToHalfPast =>
        /\ req.slotTime = At(1, 10, 30) => res.value
        /\ (req.slotTime = At(1, 9, 45) /\ req.slotDuration = 30) => ~res.value
        /\ req.slotTime = At(1, 10, 0) => ~res.value

\* C7 witness: the 09:45 candidate of 30 minutes was tested against 10:00-10:30.
C7_Witness ==
    /\ TenToHalfPast
    /\ req.slotTime = At(1, 9, 45) /\ req.slotDuration = 30
    /\ ~res.value

(***************************************************************************)
(* Properties of slot generation.                                          *)
(***************************************************************************)
\* Minutes after midnight of a stored time of day HH:MM.
TimeOfDay(time) == (time[1] * 10 + time[2]) * 60 + time[3] * 10 + time[4]

AvailabilityServed == req.op = "getSaloonAvailability" /\ res.ok
Opening == TimeOfDay(saloons[req.id].opening_time)
Closing == TimeOfDay(saloons[req.id].closing_time)

\* The local calendar day the generated slots lie on.
SlotDay == LocalDay(TargetDate(req.date).val)

\* The local times of day of a sequence of instants.
TimesOfDay(instants) == [i \in 1..Len(instants) |-> LocalMinuteOfDay(instants[i])]
SlotTimes == [i \in 1..Len(res.available_slots) |-> res.available_slots[i].time]

\* start, start + 30, ..., the last one at or before `last`.
HalfHours(start, last) == [i \in 1..((last - start) \div 30 + 1) |-> start + (i - 1) * 30]

OneIntervalUnaligned ==
    /\ AvailabilityServed
    /\ Closing = Opening + 30
    /\ Opening % 30 # 0

\* C9 as stated: then no slot is generated (e.g. 09:15-09:45).
C9_Original == OneIntervalUnaligned => candidates.generated = <<>>

\* C9 (amended): then exactly one candidate is generated, the multiple of 30 minutes
\* between opening and closing (09:30 for 09:15-09:45).
C9_OneSlotGenerated ==
    OneIntervalUnaligned =>
        /\ TimesOfDay(candidates.generated) = <<(Opening \div 30 + 1) * 30>>
        /\ LocalDay(candidates.generated[1]) = SlotDay

\* C9 witness: 09:15-09:45, and 09:30 is offered.
C9_Witness ==
    /\ OneIntervalUnaligned
    /\ Opening = 9 * 60 + 15
    /\ TimesOfDay(candidates.generated) = <<9 * 60 + 30>>
    /\ TimesOfDay(SlotTimes) = <<9 * 60 + 30>>

\* The elements of a sequence.
Range(seq) == {seq[i] : i \in 1..Len(seq)}

ServiceMinutes(service_id) ==
    IF saloon_services[service_id].duration.tag = "null"
    THEN 60
    ELSE saloon_services[service_id].duration.val

\* The length of the candidate slots of the query served.
SlotLength ==
    IF req.service_id.tag = "number" THEN ServiceMinutes(req.service_id.val) ELSE 60

\* Appointment a, taken as [start, start + duration), overlaps the candidate at `slot`.
Blocks(a, slot) ==
    HalfOpenOverlap(slot, slot + SlotLength,
                    a.appointment_date, a.appointment_date + ServiceMinutes(a.service_id))

Offered(slot) == slot \in Range(SlotTimes)

\* C11: every candidate that the result leaves out is overlapped by an appointment
\* of the salon whose status is pending or confirmed: a cancelled or completed
\* appointment never removes a slot, and a slot that only A blocked is offered by
\* the query after A is cancelled or completed.
C11_OnlyActiveBlock ==
    AvailabilityServed =>
        \A k \in 1..Len(candidates.kept) :
            ~Offered(candidates.kept[k]) =>
                \E i \in 1..Len(appointments) :
                    /\ appointments[i].status \in {PENDING, CONFIRMED}
                    /\ appointments[i].saloon_id = req.id
                    /\ Blocks(appointments[i], candidates.kept[k])

\* C11 witness: two appointments of the salon on the queried day, one cancelled
\* and one completed, both over a slot that the query offers.
C11_Witness ==
    /\ AvailabilityServed
    /\ Len(appointments) = 2
    /\ appointments[1].status = CANCELLED /\ appointments[2].status = COMPLETED
    /\ \A i \in 1..2 : /\ appointments[i].saloon_id = req.id
                       /\ LocalDay(appointments[i].appointment_date) = SlotDay
    /\ \E k \in 1..Len(SlotTimes) :
          Blocks(appointments[1], SlotTimes[k]) /\ Blocks(appointments[2], SlotTimes[k])

\* A pending or confirmed appointment of the queried salon overlaps the candidate.
Occupied(slot) ==
    \E i \in 1..Len(appointments) :
        /\ appointments[i].status \in {PENDING, CONFIRMED}
        /\ appointments[i].saloon_id = req.id
        /\ Blocks(appointments[i], slot)

\* C12: a candidate is offered iff no pending or confirmed appointment of the
\* salon, of whatever service, overlaps it, also when the query names a service.
C12_AllServicesBlock ==
    AvailabilityServed =>
        \A k \in 1..Len(candidates.kept) :
            Offered(candidates.kept[k]) = ~Occupied(candidates.kept[k])

\* C12 failing input: on a server in UTC the query names service 1, and a slot is
\* offered that a pending appointment of service 3 of the same salon overlaps.
C12_FailingInput ==
    /\ AvailabilityServed
    /\ tzOffset = 0
    /\ req.service_id = Num(1)
    /\ \E k \in 1..Len(SlotTimes), i \in 1..Len(appointments) :
          /\ appointments[i].status = PENDING
          /\ appointments[i].saloon_id = req.id
          /\ appointments[i].service_id = 3
          /\ LocalDay(appointments[i].appointment_date) = res.date
          /\ Blocks(appointments[i], SlotTimes[k])

\* C13: a missing duration counts as 60 minutes: the candidates are as long as the
\* service named, 60 minutes when its duration is null or no service is named; each
\* appointment read is as long as its service, 60 minutes when that duration is
\* null; and a candidate is offered iff it overlaps none of them at these lengths.
C13_MissingDurationIsSixty ==
    AvailabilityServed =>
        LET rows == candidates.appointments
        IN  /\ \A r \in 1..Len(rows) :
                  \E i \in 1..Len(appointments) :
                      /\ appointments[i].appointment_date = rows[r].appointment_date
                      /\ appointments[i].saloon_id = req.id
                      /\ rows[r].duration = ServiceMinutes(appointments[i].service_id)
            /\ \A k \in 1..Len(candidates.kept) :
                  Offered(candidates.kept[k])
                    = (\A r \in 1..Len(rows) :
                          ~HalfOpenOverlap(candidates.kept[k], candidates.kept[k] + SlotLength,
                                           rows[r].appointment_date,
                                           rows[r].appointment_date + rows[r].duration))

\* C13 witness: service 3 has no stored duration; it is named by the query and by
\* the only appointment, at time t: t - 30 and t + 30 are not offered, t + 60 is.
C13_Witness ==
    /\ AvailabilityServed
    /\ saloon_services[3].duration = NullNum
    /\ req.service_id = Num(3)
    /\ Len(appointments) = 1
    /\ appointments[1].service_id = 3 /\ appointments[1].status = PENDING
    /\ LET t == appointments[1].appointment_date
       IN  /\ t - 30 \in Range(candidates.kept) /\ ~Offered(t - 30)
           /\ t + 30 \in Range(candidates.kept) /\ ~Offered(t + 30)
           /\ Offered(t + 60)

C17_NoDoubleBooking ==
    \A i \in 1..Len(appointments), j \in 1..Len(appointments) :
        (/\ i < j
         /\ appointments[i].status \in {PENDING, CONFIRMED}
         /\ appointments[j].status \in {PENDING, CONFIRMED}
         /\ appointments[i].saloon_id = appointments[j].saloon_id)
            => appointments[i].appointment_date # appointments[j].appointment_date

\* C17 failing input: guests 4 and 5 were both offered the slot while the store was
\* empty, both booked it, and both bookings are stored as pending.
C17_FailingInput ==
    /\ Len(appointments) = 2
    /\ appointments[1].guest_id # appointments[2].guest_id
    /\ appointments[1].saloon_id = appointments[2].saloon_id
    /\ appointments[1].appointment_date = appointments[2].appointment_date
    /\ appointments[1].status = PENDING /\ appointments[2].status = PENDING
    /\ \A c \in Clients :
          /\ clients[c].store = <<>>
          /\ appointments[1].appointment_date \in TenOClockOffered(c)
    /\ req.op = "bookAppointment" /\ res = SendSuccess(201)

\* Each element of the sequence is greater than the one before it.
StrictlyAscending(seq) == \A i \in 1..(Len(seq) - 1) : seq[i] < seq[i + 1]

\* C15: the slots returned are strictly ascending by start time, and so are the
\* candidates the walk generates: no start time occurs twice.
C15_SlotsAscending ==
    AvailabilityServed =>
        /\ StrictlyAscending(candidates.generated)
        /\ StrictlyAscending(SlotTimes)

\* C15 witness: a salon opening at a quarter past, at least ten slots returned, and
\* a gap in the list where the 10:00 appointment lies.
C15_Witness ==
    /\ AvailabilityServed
    /\ Opening % 60 = 15
    /\ Len(SlotTimes) >= 10
    /\ candidates.appointments # <<>>
    /\ \E i \in 1..(Len(SlotTimes) - 1) : SlotTimes[i + 1] - SlotTimes[i] > 30

(***************************************************************************)
(* Properties of the business hours.                                       *)
(***************************************************************************)
\* C16: after any sequence of createSaloon and updateSaloon requests, also updates
\* that give only one of the two times, every stored salon opens strictly before
\* it closes.
C16_OpeningBeforeClosing ==
    \A id \in DOMAIN saloons :
        TimeOfDay(saloons[id].opening_time) < TimeOfDay(saloons[id].closing_time)

\* C16 failing input: an update that gives only the closing time was accepted, and
\* the salon now closes before it opens.
C16_FailingInput ==
    /\ req.op = "updateSaloon"
    /\ res = SendSuccess(200)
    /\ req.opening_time = NoTime /\ req.closing_time = Time(9, 0)
    /\ saloons[req.id].opening_time = TimeStr(17, 0)
    /\ saloons[req.id].closing_time = TimeStr(9, 0)

(***************************************************************************)
(* Properties of the booking write.                                        *)
(***************************************************************************)
\* The booking request passed every check and its INSERT was rejected as a duplicate.
InsertRejected ==
    /\ req.op = "bookAppointment"
    /\ req.user # NoToken /\ BookRoleAllowed(req.user)
    /\ createAppointmentSchema(req.saloon_id, req.service_id, req.appointment_date, req.notes)
    /\ BookThrows(req.saloon_id, req.service_id) = "none"
    /\ req.insertError = "ER_DUP_ENTRY"

\* C18: a booking whose INSERT the storage rejects as a duplicate is answered with
\* ConflictError, HTTP 409.
C18_ConflictIs409 ==
    InsertRejected => res = [ok |-> FALSE, kind |-> "ConflictError", code |-> 409]

\* C18 failing input: the INSERT of a guest's valid booking was rejected as a
\* duplicate; the response is DatabaseError, 500, and nothing is stored.
C18_FailingInput ==
    /\ InsertRejected
    /\ res = [ok |-> FALSE, kind |-> "DatabaseError", code |-> 500]
    /\ appointments = <<>>

(***************************************************************************)
(* Properties of the lookups of getSaloonAvailability.                     *)
(***************************************************************************)
\* The query names a salon that does not exist, or a service that is not one of
\* the services of the salon it names.
SalonOrServiceAbsent ==
    /\ req.op = "getSaloonAvailability"
    /\ \/ req.id \notin DOMAIN saloons
       \/ /\ req.service_id.tag = "number"
          /\ ~\E s \in DOMAIN saloon_services :
                s = req.service_id.val /\ saloon_services[s].saloon_id = req.id

\* C19 as stated: every such query fails with NotFoundError.
C19_Original == SalonOrServiceAbsent => res.kind = "NotFoundError"

\* C19 (amended): such a query whose date is absent or well-formed fails with
\* NotFoundError (404), never DatabaseError, and no slot is computed.
C19_AbsentIsNotFound ==
    (SalonOrServiceAbsent /\ req.date # InvalidDate)
        => /\ res = [ok |-> FALSE, kind |-> "NotFoundError", code |-> 404]
           /\ candidates = NoCandidates

\* C19 witness: service 2 exists, in salon 2; the query names it for salon 1.
C19_Witness ==
    /\ SalonOrServiceAbsent
    /\ req.id = 1 /\ req.service_id = Num(2) /\ req.date = DayString(1)
    /\ saloon_services[2].saloon_id = 2
    /\ res.kind = "NotFoundError" /\ res.code = 404

(***************************************************************************)
(* Frame properties of the appointments table.                             *)
(***************************************************************************)
\* C20: a step of getSaloonAvailability, getUserAppointments or bookAppointment,
\* successful or not, leaves every existing appointment as it was; a status
\* changes only in a successful updateAppointmentStatus step, and only that of
\* the appointment the request addresses.
C20_OnlyUpdateChangesStatus ==
    [][\A i \in 1..Len(appointments) :
          /\ i <= Len(appointments')
          /\ req'.op # "updateAppointmentStatus" => appointments'[i] = appointments[i]
          /\ appointments'[i] # appointments[i]
                => /\ req'.op = "updateAppointmentStatus"
                   /\ res'.ok
                   /\ req'.id = i
                   /\ appointments'[i] = [appointments[i] EXCEPT
                                            !.status = appointments'[i].status,
                                            !.notes = appointments'[i].notes]]_vars

\* C20 witness: two appointments, the first confirmed by an update; then a
\* listing returned both and the store still holds them.
C20_Witness ==
    /\ req.op = "getUserAppointments" /\ res.ok
    /\ Len(appointments) = 2
    /\ appointments[1].status = CONFIRMED /\ appointments[2].status = PENDING
    /\ Len(res.appointments) = 2

(***************************************************************************)
(* SpecFormat: formatTime applied to a Date of every local time of day, in  *)
(* several server timezones.                                               *)
(***************************************************************************)
InitFormat ==
    /\ saloons = TwoSaloons
    /\ saloon_services = TwoServices
    /\ appointments = <<>>
    /\ tzOffset \in TzOffsets
    /\ now = LocalInstant(1, 9, 40)
    /\ \E h \in 0..23, m \in 0..59 :
          req = [op |-> "formatTime", date |-> LocalInstant(1, h, m), h |-> h, m |-> m]
    /\ appointment = NoRow
    /\ candidates = NoCandidates
    /\ res = NoResponse
    /\ clients = NothingSeen
    /\ handlers = NoHandlers
    /\ writes = {}

CallFormatTime ==
    /\ req.op = "formatTime"
    /\ res = NoResponse
    /\ res' = [ok |-> TRUE, kind |-> "returned", code |-> 0, value |-> formatTime(req.date)]
    /\ UNCHANGED <<saloons, saloon_services, appointments, now, tzOffset, req,
                   appointment, candidates, clients, handlers, writes>>

NextFormat == CallFormatTime

SpecFormat == InitFormat /\ [][NextFormat]_vars

(***************************************************************************)
(* Properties of the display format.                                       *)
(***************************************************************************)
FormatReturned == req.op = "formatTime" /\ res.kind = "returned"

\* The two decimal digits of a number below 100.
TwoDigits(n) == <<n \div 10, n % 10>>

\* C21: formatTime renders local time h:m (h in 0..23, m in 0..59) as 12-hour
\* with AM/PM and two-digit minutes: hours 0 and 12 display as 12, hours 13..23 as
\* h - 12, hours below 12 are AM and hours from 12 are PM; 09:00 is 9:00 AM, 14:30
\* is 2:30 PM, 00:05 is 12:05 AM and 12:00 is 12:00 PM.
C21_TwelveHourClock ==
    FormatReturned =>
        LET h == req.h
            m == req.m
            shown == res.value
        IN  /\ shown.hours = (IF h \in {0, 12} THEN 12 ELSE IF h > 12 THEN h - 12 ELSE h)
            /\ shown.hours \in 1..12
            /\ shown.minutes = TwoDigits(m)
            /\ shown.ampm = (IF h < 12 THEN "AM" ELSE "PM")
            /\ (h = 9 /\ m = 0) => shown = [hours |-> 9, minutes |-> <<0, 0>>, ampm |-> "AM"]
            /\ (h = 14 /\ m = 30) => shown = [hours |-> 2, minutes |-> <<3, 0>>, ampm |-> "PM"]
            /\ (h = 0 /\ m = 5) => shown = [hours |-> 12, minutes |-> <<0, 5>>, ampm |-> "AM"]
            /\ (h = 12 /\ m = 0) => shown = [hours |-> 12, minutes |-> <<0, 0>>, ampm |-> "PM"]

\* C21 witness: five past midnight local time, on a server east of UTC, was
\* rendered 12:05 AM.
C21_Witness ==
    /\ FormatReturned
    /\ tzOffset = 330
    /\ req.h = 0 /\ req.m = 5
    /\ res.value = [hours |-> 12, minutes |-> <<0, 5>>, ampm |-> "AM"]

(***************************************************************************)
(* Properties of the candidate start times.                                *)
(***************************************************************************)
\* The times of day that are multiples of 30 minutes in [from, to).
HalfHoursWithin(from, to) == {30 * k : k \in {j \in 0..47 : 30 * j >= from /\ 30 * j < to}}

\* The greatest element of a non-empty set of numbers.
Greatest(set) == CHOOSE x \in set : \A y \in set : y <= x

\* C22: with opening < closing the candidates generated, before the past-slot and
\* overlap filters, are exactly the times of day that are multiples of 30 minutes
\* in [opening, closing), on the queried day, each once and in ascending order: the
\* first is the opening rounded up to a multiple of 30, none is skipped, and the
\* last is the greatest multiple of 30 strictly before closing.
C22_CandidatesAreHalfHours ==
    (AvailabilityServed /\ Opening < Closing) =>
        LET generated == candidates.generated
            times == TimesOfDay(generated)
            expected == HalfHoursWithin(Opening, Closing)
        IN  /\ Range(times) = expected
            /\ Len(times) = Cardinality(expected)
            /\ \A i \in 1..Len(generated) : LocalDay(generated[i]) = SlotDay
            /\ \A i \in 1..(Len(times) - 1) : times[i + 1] = times[i] + 30
            /\ times # <<>> =>
                  /\ times[1] = ((Opening + 29) \div 30) * 30
                  /\ times[Len(times)] = Greatest(expected)
                  /\ times[Len(times)] < Closing /\ times[Len(times)] + 30 >= Closing

\* C22 witness: 09:45-17:31 on a server west of UTC: sixteen candidates, the first
\* at 10:00 and the last at 17:30.
C22_Witness ==
    /\ AvailabilityServed
    /\ tzOffset < 0
    /\ Opening = 9 * 60 + 45 /\ Closing = 17 * 60 + 31
    /\ Len(candidates.generated) = 16
    /\ LocalMinuteOfDay(candidates.generated[1]) = 10 * 60
    /\ LocalMinuteOfDay(candidates.generated[16]) = 17 * 60 + 30

(***************************************************************************)
(* updateAppointmentStatus as the two steps its awaits make of it: the     *)
(* SELECT with the checks of the row it returns, and later the UPDATE.     *)
(* The handler holds no lock and opens no transaction, so the steps of     *)
(* other connections run between the two.                                  *)
(***************************************************************************)
\* The request up to the SELECT and the checks: it is answered with an error, or
\* the handler is suspended at the UPDATE with the row it read.
UpdateStatusSelect(p, user, id, status, notes) ==
    /\ handlers[p] = Idle
    /\ req' = [op |-> "updateAppointmentStatus", user |-> user, id |-> id,
               status |-> status, notes |-> notes]
    /\ UNCHANGED <<saloons, saloon_services, appointments, now, tzOffset, candidates,
                   clients, writes>>
    /\ IF user = NoToken
       THEN /\ res' = Unauthorized
            /\ appointment' = NoRow
            /\ UNCHANGED handlers
       ELSE IF ~updateAppointmentStatusSchema(status, notes)
       THEN /\ res' = SendError("ValidationError")
            /\ appointment' = NoRow
            /\ UNCHANGED handlers
       ELSE LET row == SelectAppointment(id)
                thrown == UpdateThrows(user, row, status)
            IN  /\ appointment' = row
                /\ IF thrown # "none"
                   THEN /\ res' = SendError(UpdateCatch(thrown))
                        /\ UNCHANGED handlers
                   ELSE /\ res' = NoResponse
                        /\ handlers' = [handlers EXCEPT ![p] =
                              [pc |-> "UPDATE", user |-> user, id |-> id, status |-> status,
                               notes |-> notes, appointment |-> row]]

\* The handler resumes: UPDATE appointments SET status = ? [, notes = ?] WHERE id = ?
\* and the success response.  The write is recorded with the status the handler
\* had read and the status the row held when it was written over.
UpdateStatusUpdate(p) ==
    LET h == handlers[p]
    IN  /\ h.pc = "UPDATE"
        /\ req' = [op |-> "updateAppointmentStatus", user |-> h.user, id |-> h.id,
                   status |-> h.status, notes |-> h.notes]
        /\ appointment' = h.appointment
        /\ appointments' = UpdateRow(h.id, h.status, h.notes)
        /\ writes' = writes \cup {[id |-> h.id, user |-> h.user,
                                    read |-> h.appointment.status,
                                    over |-> appointments[h.id].status,
                                    status |-> h.status]}
        /\ res' = SendSuccess(200)
        /\ handlers' = [handlers EXCEPT ![p] = Idle]
        /\ UNCHANGED <<saloons, saloon_services, now, tzOffset, candidates, clients>>

(***************************************************************************)
(* SpecRace: guest 4 books at salon 1; the salon's owner, another owner    *)
(* and the guest send status updates on two connections at the same time.  *)
(***************************************************************************)
RaceUsers ==
    { [userId |-> 2, roleId |-> OWNER_ROLE],
      [userId |-> 3, roleId |-> OWNER_ROLE],
      [userId |-> 4, roleId |-> GUEST_ROLE] }

RaceBook ==
    /\ Len(appointments) < MaxAppointments
    /\ UNCHANGED <<clients, handlers, writes>>
    /\ BookAppointment([userId |-> 4, roleId |-> GUEST_ROLE], 1, 1,
                       Num(LocalInstant(2, 10, 0)), Undefined, "absent", "none")

RaceSelect(p) ==
    \E user \in RaceUsers, id \in 1..(MaxAppointments + 1), status \in AppointmentStatus :
        UpdateStatusSelect(p, user, id, status, Undefined)

RaceUpdate(p) == UpdateStatusUpdate(p)

NextRace == RaceBook \/ \E p \in Connections : RaceSelect(p) \/ RaceUpdate(p)

SpecRace == Init /\ [][NextRace]_vars

(***************************************************************************)
(* Properties of concurrent status updates.                                *)
(***************************************************************************)
\* C23: also when two updateAppointmentStatus requests for the same appointment
\* interleave between their read and their write, every status change written is a
\* transition the table allows to the writer from the status stored at the moment
\* of the write; no write changes the status of a cancelled or completed appointment.
C23_WritesFollowTheTable ==
    \A w \in writes :
        w.over # w.status =>
            /\ <<w.user.roleId = OWNER_ROLE, w.over, w.status>> \in TransitionTable
            /\ w.over \notin {CANCELLED, COMPLETED}

\* C23 failing input: the owner read pending and asked to confirm; before the
\* owner's write the guest cancelled; the owner's write made the cancelled
\* appointment confirmed.
C23_FailingInput ==
    /\ [id |-> 1, user |-> [userId |-> 4, roleId |-> GUEST_ROLE],
        read |-> PENDING, over |-> PENDING, status |-> CANCELLED] \in writes
    /\ [id |-> 1, user |-> [userId |-> 2, roleId |-> OWNER_ROLE],
        read |-> PENDING, over |-> CANCELLED, status |-> CONFIRMED] \in writes
    /\ req.op = "updateAppointmentStatus" /\ req.user.userId = 2 /\ res = SendSuccess(200)
    /\ Len(appointments) = 1
    /\ appointments[1].status = CONFIRMED

\* C25: in every interleaving of bookings and status updates, completed is written
\* only by the owner of the appointment's salon and only by a request that read
\* confirmed, never by one that read pending; no request of a guest writes confirmed
\* or completed; and a completed appointment was confirmed by an earlier write.
C25_CompletedWasConfirmed ==
    /\ \A w \in writes :
          /\ w.status = COMPLETED =>
                /\ w.read = CONFIRMED
                /\ w.user.roleId = OWNER_ROLE
                /\ w.user.userId = saloons[appointments[w.id].saloon_id].owner_id
          /\ w.user.roleId = GUEST_ROLE => w.status \notin {CONFIRMED, COMPLETED}
    /\ \A i \in 1..Len(appointments) :
          appointments[i].status = COMPLETED =>
              /\ \E w \in writes : w.id = i /\ w.status = COMPLETED
              /\ \E w \in writes : w.id = i /\ w.status = CONFIRMED /\ w.read = PENDING

\* C25 witness: the owner confirmed, read confirmed and asked to complete; the
\* guest cancelled in between; the owner's write completed the appointment.
C25_Witness ==
    /\ Len(appointments) = 1
    /\ appointments[1].status = COMPLETED
    /\ [id |-> 1, user |-> [userId |-> 2, roleId |-> OWNER_ROLE],
        read |-> CONFIRMED, over |-> CANCELLED, status |-> COMPLETED] \in writes
    /\ \E w \in writes : w.user.roleId = GUEST_ROLE /\ w.status = CANCELLED

(***************************************************************************)
(* SpecRebook: guest 4 asks for the availability of salon 1, books the     *)
(* 10:00 slot offered and asks again; the owner moves the appointment      *)
(* through its statuses.  The server runs in one of several timezones, in  *)
(* the morning or just after midnight.                                     *)
(***************************************************************************)
InitRebook ==
    /\ saloons = TwoSaloons
    /\ saloon_services = TwoServices
    /\ tzOffset \in TzOffsets
    /\ \E t \in {<<9, 40>>, <<0, 10>>} : now = LocalInstant(1, t[1], t[2])
    /\ appointments = <<>>
    /\ req = NoRequest
    /\ appointment = NoRow
    /\ candidates = NoCandidates
    /\ res = NoResponse
    /\ clients = NothingSeen
    /\ handlers = NoHandlers
    /\ writes = {}

\* Client c asks for today (no date given) or for a named day, and keeps the answer.
RebookQuery(c) ==
    /\ \E date \in {UndefinedParam, DayString(1), DayString(2)},
          service_id \in {UndefinedParam, Num(1)} :
          GetSaloonAvailability(1, date, service_id)
    /\ clients' = [clients EXCEPT ![c] = [asked |-> req', answer |-> res',
                                         store |-> appointments]]
    /\ UNCHANGED <<handlers, writes>>

\* Client c books, as guest c, the 10:00 slot of the answer it holds.
RebookBook(c) ==
    /\ Len(appointments) < MaxAppointments
    /\ UNCHANGED <<clients, handlers, writes>>
    /\ \E slot \in TenOClockOffered(c) :
          BookAppointment([userId |-> c, roleId |-> GUEST_ROLE], 1, 1, Num(slot),
                          Undefined, "absent", "none")

NextRebook == RebookQuery(4) \/ RebookBook(4) \/ CalendarUpdate

SpecRebook == InitRebook /\ [][NextRebook]_vars

(***************************************************************************)
(* Properties of booking followed by availability.                         *)
(***************************************************************************)
\* The calendar day the query asks for: the day named, today when none is named.
QueriedDay == IF req.date.tag = "day" THEN req.date.val ELSE LocalDay(now)

\* C24: while an appointment booked at an offered start time T is pending or
\* confirmed, a query for its salon and the day of T, with its service or with no
\* service id, does not offer T.
C24_BookedSlotNotOffered ==
    AvailabilityServed =>
        \A i \in 1..Len(appointments) :
            (/\ appointments[i].status \in {PENDING, CONFIRMED}
             /\ appointments[i].saloon_id = req.id
             /\ req.service_id.tag = "number" => req.service_id.val = appointments[i].service_id
             /\ QueriedDay = LocalDay(appointments[i].appointment_date))
                => ~Offered(appointments[i].appointment_date)

\* C24 failing input: ten past midnight on a server east of UTC; the guest was
\* offered 10:00 today, booked it, and asked again for today: 10:00 is offered.
C24_FailingInput ==
    /\ AvailabilityServed
    /\ tzOffset = 330 /\ LocalMinuteOfDay(now) = 10
    /\ req.date = UndefinedParam /\ req.service_id = Num(1)
    /\ Len(appointments) = 1
    /\ appointments[1].status = PENDING /\ appointments[1].guest_id = 4
    /\ appointments[1].appointment_date = LocalInstant(1, 10, 0)
    /\ Offered(LocalInstant(1, 10, 0))

(***************************************************************************)
(* SpecDurations: the two guests ask for the availability of salon 1 with   *)
(* no service, with service 1 (30 minutes) or with service 3, whose        *)
(* duration ranges from a quarter of an hour to a whole day's work.        *)
(***************************************************************************)
LongAndShortDurations == {NullNum, Num(15), Num(45), Num(90), Num(480)}

InitDurations ==
    /\ saloons = TwoSaloons
    /\ \E duration \in LongAndShortDurations : saloon_services = ThreeServices(duration)
    /\ tzOffset \in TzOffsets
    /\ now = LocalInstant(1, 9, 40)
    /\ appointments \in {<<>>, HalfPastTenBooked}
    /\ req = NoRequest
    /\ appointment = NoRow
    /\ candidates = NoCandidates
    /\ res = NoResponse
    /\ clients = NothingSeen
    /\ handlers = NoHandlers
    /\ writes = {}

DurationQuery(c) ==
    /\ \E date \in {UndefinedParam, DayString(2)},
          service_id \in {UndefinedParam, Num(1), Num(3)} :
          GetSaloonAvailability(1, date, service_id)
    /\ clients' = [clients EXCEPT ![c] = [asked |-> req', answer |-> res',
                                         store |-> appointments]]
    /\ UNCHANGED <<handlers, writes>>

NextDurations == \E c \in Clients : DurationQuery(c)

SpecDurations == InitDurations /\ [][NextDurations]_vars

(***************************************************************************)
(* Properties of the service duration.                                     *)
(***************************************************************************)
\* Client c holds the answer to a query it asked while no appointment was stored.
AskedOfEmptyStore(c) ==
    /\ clients[c].asked.op = "getSaloonAvailability"
    /\ clients[c].answer.ok
    /\ clients[c].store = <<>>

\* C26: with no existing appointments the slot list does not depend on the service
\* duration: two queries for the same salon and date return the same slots whatever
\* service they name; every candidate that is not in the past is returned, so a
\* slot that starts before closing is offered also when start + duration is after
\* closing (16:30 for 60 minutes with closing 17:00).
C26_SlotsIgnoreDuration ==
    /\ \A c1 \in Clients, c2 \in Clients :
          (/\ AskedOfEmptyStore(c1) /\ AskedOfEmptyStore(c2)
           /\ clients[c1].asked.id = clients[c2].asked.id
           /\ clients[c1].asked.date = clients[c2].asked.date)
              => clients[c1].answer.available_slots = clients[c2].answer.available_slots
    /\ (AvailabilityServed /\ appointments = <<>>) =>
          /\ SlotTimes = candidates.kept
          /\ (Closing = 17 * 60 /\ SlotDay # LocalDay(now)) =>
                \E k \in 1..Len(SlotTimes) : LocalMinuteOfDay(SlotTimes[k]) = 16 * 60 + 30

\* C26 witness: nothing is booked; one guest asked for service 3, of 480 minutes,
\* the other named no service, both for the same day: the same sixteen slots, the
\* last at 16:30.
C26_Witness ==
    /\ AskedOfEmptyStore(4) /\ AskedOfEmptyStore(5)
    /\ saloon_services[3].duration = Num(480)
    /\ clients[4].asked.service_id = Num(3) /\ clients[5].asked.service_id = UndefinedParam
    /\ clients[4].asked.date = DayString(2) /\ clients[5].asked.date = DayString(2)
    /\ tzOffset = 0
    /\ Len(clients[4].answer.available_slots) = 16
    /\ clients[4].answer.available_slots = clients[5].answer.available_slots
    /\ LocalMinuteOfDay(clients[4].answer.available_slots[16].time) = 16 * 60 + 30
    /\ 16 * 60 + 30 + ServiceMinutes(3) > TimeOfDay(saloons[1].closing_time)

(***************************************************************************)
(* Properties of the references of a booking.                              *)
(***************************************************************************)
\* The salon exists and the service is one of its services.
ServiceOfSalon(saloon_id, service_id) ==
    /\ saloon_id \in DOMAIN saloons
    /\ service_id \in DOMAIN saloon_services
    /\ saloon_services[service_id].saloon_id = saloon_id

\* The booking request names a missing salon, or a service that is not a service
\* of the salon it names.
BookingOfAbsent ==
    /\ req.op = "bookAppointment"
    /\ ~ServiceOfSalon(req.saloon_id, req.service_id)

\* C27 as stated: every such booking fails with NotFoundError.
C27_Original == BookingOfAbsent => res.kind = "NotFoundError"

\* C27 (amended): every appointment a booking stores names an existing salon and a
\* service of that salon; a booking for a missing salon or a foreign service stores
\* nothing, and when it comes from a guest with a valid body it fails with
\* NotFoundError (404).
C27_BookingRefersToSalon ==
    [][req'.op = "bookAppointment" =>
          /\ appointments' # appointments =>
                /\ ServiceOfSalon(req'.saloon_id, req'.service_id)
                /\ appointments'[Len(appointments')].saloon_id = req'.saloon_id
                /\ appointments'[Len(appointments')].service_id = req'.service_id
          /\ ~ServiceOfSalon(req'.saloon_id, req'.service_id) =>
                /\ appointments' = appointments
                /\ (/\ req'.user.roleId = GUEST_ROLE
                    /\ createAppointmentSchema(req'.saloon_id, req'.service_id,
                                               req'.appointment_date, req'.notes))
                      => res' = [ok |-> FALSE, kind |-> "NotFoundError", code |-> 404]]_vars

\* C27 witness: a guest's valid booking names salon 1 and service 2, which is a
\* service of salon 2: NotFoundError, nothing stored.
C27_Witness ==
    /\ BookingOfAbsent
    /\ req.user.roleId = GUEST_ROLE
    /\ req.saloon_id = 1 /\ req.service_id = 2
    /\ saloon_services[2].saloon_id = 2
    /\ req.insertError = "none"
    /\ res = [ok |-> FALSE, kind |-> "NotFoundError", code |-> 404]
    /\ appointments = <<>>

(***************************************************************************)
(* Frame properties of updateAppointmentStatus.                            *)
(***************************************************************************)
\* C28: a successful updateAppointmentStatus step sets the status of the addressed
\* appointment to the requested target, sets its notes only when the request
\* supplies notes, and leaves its guest, salon, service and date and every other
\* appointment as they were; a request that fails writes nothing.
C28_UpdateWritesOneRow ==
    [][req'.op = "updateAppointmentStatus" =>
          IF res'.ok
          THEN /\ req'.id \in 1..Len(appointments)
               /\ Len(appointments') = Len(appointments)
               /\ \A i \in 1..Len(appointments) :
                     i # req'.id => appointments'[i] = appointments[i]
               /\ appointments'[req'.id].status = req'.status
               /\ appointments'[req'.id].notes =
                     (IF req'.notes.tag = "undefined"
                      THEN appointments[req'.id].notes ELSE req'.notes)
               /\ appointments'[req'.id].guest_id = appointments[req'.id].guest_id
               /\ appointments'[req'.id].saloon_id = appointments[req'.id].saloon_id
               /\ appointments'[req'.id].service_id = appointments[req'.id].service_id
               /\ appointments'[req'.id].appointment_date
                     = appointments[req'.id].appointment_date
          ELSE appointments' = appointments]_vars

\* C28 witness: of two appointments the first had received notes with an earlier
\* update; an update without notes cancelled it and the notes are still there; the
\* second appointment is pending and has no notes.
C28_Witness ==
    /\ req.op = "updateAppointmentStatus" /\ res.ok
    /\ req.id = 1 /\ req.status = CANCELLED /\ req.notes = Undefined
    /\ Len(appointments) = 2
    /\ appointments[1].status = CANCELLED /\ appointments[1].notes = Str("hi", 2)
    /\ appointments[2].status = PENDING /\ appointments[2].notes = Null

(***************************************************************************)
(* createSaloon as the two steps its awaits make of it: the SELECT of the   *)
(* owner's salon, and later the INSERT.                                    *)
(***************************************************************************)
\* The request up to the SELECT: it is answered with an error, or the handler is
\* suspended at the INSERT.
createSaloonSelect(p, user, opening_time, closing_time) ==
    /\ handlers[p] = Idle
    /\ req' = [op |-> "createSaloon", user |-> user, opening_time |-> opening_time,
               closing_time |-> closing_time]
    /\ appointment' = NoRow
    /\ UNCHANGED <<saloons, saloon_services, appointments, now, tzOffset, candidates,
                   clients, writes>>
    /\ IF user = NoToken
       THEN /\ res' = Unauthorized
            /\ UNCHANGED handlers
       ELSE IF user.roleId # OWNER_ROLE
       THEN /\ res' = Forbidden
            /\ UNCHANGED handlers
       ELSE IF ~createSaloonSchema(opening_time, closing_time)
       THEN /\ res' = SendError("ValidationError")
            /\ UNCHANGED handlers
       ELSE IF \E id \in DOMAIN saloons : saloons[id].owner_id = user.userId
       THEN /\ res' = SendError(CreateCatch("ConflictError"))
            /\ UNCHANGED handlers
       ELSE /\ res' = NoResponse
            /\ handlers' = [handlers EXCEPT ![p] =
                  [pc |-> "INSERT", user |-> user, opening_time |-> opening_time,
                   closing_time |-> closing_time]]

\* The handler resumes: INSERT INTO saloons ... and the 201 response.
createSaloonInsert(p) ==
    LET h == handlers[p]
        openingTime == TimeOrDefault(h.opening_time, Time(9, 0))
        closingTime == TimeOrDefault(h.closing_time, Time(17, 0))
    IN  /\ h.pc = "INSERT"
        /\ req' = [op |-> "createSaloon", user |-> h.user, opening_time |-> h.opening_time,
                   closing_time |-> h.closing_time]
        /\ appointment' = NoRow
        /\ saloons' = saloons @@
              (InsertId :> [owner_id |-> h.user.userId,
                            opening_time |-> TimeStr(openingTime.h, openingTime.m),
                            closing_time |-> TimeStr(closingTime.h, closingTime.m)])
        /\ res' = SendSuccess(201)
        /\ handlers' = [handlers EXCEPT ![p] = Idle]
        /\ UNCHANGED <<saloon_services, appointments, now, tzOffset, candidates,
                       clients, writes>>

(***************************************************************************)
(* SpecOwners: owner 2 has salon 1, owner 3 has none; the owners, a guest  *)
(* and an anonymous caller send createSaloon requests on two connections   *)
(* at the same time.                                                       *)
(***************************************************************************)
OwnersSelect(p) ==
    \E user \in SaloonUserInputs, opening_time \in {NoTime, Time(9, 0), Time(17, 0)},
       closing_time \in {NoTime, Time(17, 0)} :
        createSaloonSelect(p, user, opening_time, closing_time)

OwnersInsert(p) == createSaloonInsert(p)

NextOwners == \E p \in Connections : OwnersSelect(p) \/ OwnersInsert(p)

SpecOwners == InitHours /\ [][NextOwners]_vars

(***************************************************************************)
(* Properties of salon ownership.                                          *)
(***************************************************************************)
\* The salons of an owner.
SaloonsOf(owner) == {id \in DOMAIN saloons : saloons[id].owner_id = owner}

\* C29: after any interleaving of createSaloon requests each owner has at most one
\* salon, also when two requests of the same owner both check before either inserts.
C29_OneSalonPerOwner ==
    \A id1 \in DOMAIN saloons, id2 \in DOMAIN saloons :
        saloons[id1].owner_id = saloons[id2].owner_id => id1 = id2

\* C29 failing input: two requests of owner 3 found no salon, then both inserted:
\* salons 2 and 3 belong to owner 3, and both requests were answered 201.
C29_FailingInput ==
    /\ req.op = "createSaloon" /\ req.user.userId = 3
    /\ res = SendSuccess(201)
    /\ SaloonsOf(3) = {2, 3}
    /\ SaloonsOf(2) = {1}

(***************************************************************************)
(* Mail delivery (sendMailWithRetry).  An invocation is suspended at the   *)
(* await of sendMail or at the three-second timer; `sent` lists the        *)
(* attempts it has made, each with the transporter used and its outcome.   *)
(***************************************************************************)
\* The default of the parameter retries, and the count the backup starts with.
DefaultRetries == 2

AfterFailureBackToPrimary(retries, useBackup) ==
    IF retries > 0
    THEN [pc |-> "setTimeout", retries |-> retries, useBackup |-> useBackup]
    ELSE [pc |-> "sendMail", retries |-> DefaultRetries, useBackup |-> ~useBackup]

\* The catch block: retry the same transporter after the timer, or start on the
\* backup, or give up.
AfterFailure(retries, useBackup) ==
    IF retries > 0
    THEN [pc |-> "setTimeout", retries |-> retries, useBackup |-> useBackup]
    ELSE IF ~useBackup
    THEN [pc |-> "sendMail", retries |-> DefaultRetries, useBackup |-> TRUE]
    ELSE [pc |-> "returned", retries |-> retries, useBackup |-> useBackup]

\* const result = await sendMailWithRetry(mailOptions)
CallSendMailWithRetry(p) ==
    /\ handlers[p] = Idle
    /\ handlers' = [handlers EXCEPT ![p] =
          [pc |-> "sendMail", retries |-> DefaultRetries, useBackup |-> FALSE,
           sent |-> <<>>, value |-> FALSE]]
    /\ UNCHANGED <<saloons, saloon_services, appointments, now, tzOffset, req,
                   appointment, candidates, res, clients, writes>>

\* await currentTransporter.sendMail(mailOptions) settles: the mail is sent, or
\* the promise rejects (the transporters have connection and socket timeouts).
SendMailSettles(p, delivered) ==
    LET h == handlers[p]
        attempt == [transporter |-> IF h.useBackup THEN "backup" ELSE "primary",
                    delivered |-> delivered]
        next == AfterFailure(h.retries, h.useBackup)
    IN  /\ h.pc = "sendMail"
        /\ handlers' = [handlers EXCEPT ![p] =
              IF delivered
              THEN [h EXCEPT !.pc = "returned", !.sent = Append(@, attempt), !.value = TRUE]
              ELSE [h EXCEPT !.pc = next.pc, !.retries = next.retries,
                             !.useBackup = next.useBackup,
                             !.sent = Append(@, attempt), !.value = FALSE]]
        /\ UNCHANGED <<saloons, saloon_services, appointments, now, tzOffset, req,
                       appointment, candidates, res, clients, writes>>

\* The timer of 3000 ms fires: sendMailWithRetry(mailOptions, retries - 1, useBackup)
TimerFires(p) ==
    /\ handlers[p].pc = "setTimeout"
    /\ handlers' = [handlers EXCEPT ![p].pc = "sendMail", ![p].retries = @ - 1]
    /\ UNCHANGED <<saloons, saloon_services, appointments, now, tzOffset, req,
                   appointment, candidates, res, clients, writes>>

(***************************************************************************)
(* SpecMail: two login tokens are mailed at the same time; every attempt   *)
(* may succeed or fail.  Every sendMail settles and every timer fires.     *)
(***************************************************************************)
MailCall(p) == CallSendMailWithRetry(p)

MailSettles(p) == \E delivered \in BOOLEAN : SendMailSettles(p, delivered)

MailTimer(p) == TimerFires(p)

NextMail == \E p \in Connections : MailCall(p) \/ MailSettles(p) \/ MailTimer(p)

SpecMail ==
    /\ Init
    /\ [][NextMail]_vars
    /\ \A p \in Connections : WF_vars(MailSettles(p)) /\ WF_vars(MailTimer(p))

(***************************************************************************)
(* Properties of mail delivery.                                            *)
(***************************************************************************)
\* The attempts of a list made with the given transporter.
AttemptsWith(sent, transporter) ==
    {i \in 1..Len(sent) : sent[i].transporter = transporter}

\* What holds of an invocation at every moment.
MailAttemptsInOrder(h) ==
    /\ Len(h.sent) <= 6
    /\ Cardinality(AttemptsWith(h.sent, "primary")) <= 3
    /\ Cardinality(AttemptsWith(h.sent, "backup")) <= 3
    /\ \A i \in 1..Len(h.sent) :
          /\ i < Len(h.sent) => ~h.sent[i].delivered
          /\ h.sent[i].transporter = (IF i <= 3 THEN "primary" ELSE "backup")
    /\ h.pc = "returned" =>
          /\ h.sent # <<>>
          /\ h.value = h.sent[Len(h.sent)].delivered
          /\ ~h.value => Len(h.sent) = 6
    /\ (h.sent # <<>> /\ h.sent[Len(h.sent)].delivered) => h.pc = "returned"

\* C30: sendMailWithRetry called with its defaults always terminates; it returns
\* true at the first send that succeeds and makes no further attempt; otherwise it
\* tries the primary transporter at most 3 times, only then the backup at most 3
\* times, never the primary again, and returns false after 6 failed attempts.
C30_MailTerminates ==
    /\ [](\A p \in Connections : handlers[p] # Idle => MailAttemptsInOrder(handlers[p]))
    /\ \A p \in Connections : (handlers[p] # Idle) ~> (handlers[p].pc = "returned")

\* C30 witness: one invocation returned false after three failed attempts on the
\* primary and three on the backup, while the other returned true at its second
\* attempt.
C30_Witness ==
    /\ handlers[1] # Idle /\ handlers[2] # Idle
    /\ handlers[1].pc = "returned" /\ ~handlers[1].value
    /\ Len(handlers[1].sent) = 6
    /\ handlers[1].sent[3].transporter = "primary"
    /\ handlers[1].sent[4].transporter = "backup"
    /\ handlers[2].pc = "returned" /\ handlers[2].value
    /\ Len(handlers[2].sent) = 2

====
